---- MODULE Spec2Model ----
(***************************************************************************)
(* Forge pipeline orchestrator (services/orchestrator/internal) together   *)
(* with the workers that answer its requests, over a topic bus with        *)
(* at-least-once delivery.  Every handler is one atomic action: it takes   *)
(* one delivery, changes the job registry, publishes its follow-on         *)
(* messages and acks or nacks.                                             *)
(***************************************************************************)
EXTENDS Integers, Sequences, FiniteSets, Bags, TLC

VARIABLES jobs, bus, sent, unused, redelivered, http, store, alive,
          ctx, tasks, chans, taken, bc, send

vars == <<jobs, bus, sent, unused, redelivered, http, store, alive,
          ctx, tasks, chans, taken, bc, send>>

\* the tasks of Run and what they wait on: the shared context, each task's
\* position, the delivery channels, the deliveries taken from them, and the
\* hub's broadcast channel and client queues
runtime == <<ctx, tasks, chans, taken, bc, send>>

(* ---------------------------- bounds ----------------------------------- *)

\* deliveries whose ack is lost, so the broker delivers the message again
MaxRedeliver == 1

\* undecodable bodies on the bus at a time
MaxMalformed == 1

\* Config.MaxIter: the deployment's MAX_ITERATIONS, any n > 0 (envInt);
\* the runs here use a small ceiling
MaxIter == 2

(* ------------------------ program constants ---------------------------- *)

\* Config.DefaultThreshold (SIMILARITY_TARGET)
DefaultThreshold == 95

JobIds == {"j1"}
\* request bodies of POST /api/jobs; a design is identified by the number of
\* screens the parser extracts from it
Requests ==
    { [design |-> 2, platforms |-> <<"react">>, threshold |-> 60],
      [design |-> 1, platforms |-> <<"react">>, threshold |-> 80],
      [design |-> 1, platforms |-> <<"kmp">>, threshold |-> 0],
      [design |-> 0, platforms |-> <<"kmp">>, threshold |-> 80] }
\* composite scores the differ reports
Scores == {70, 90}
\* prev_diff is a pointer: the empty set is nil, {s} a diff of score s
Nil == {}

(* --------------------------- routing keys ------------------------------ *)

JobSubmitted == "job.submitted"
ParseFigmaRequested == "figma.parse.requested"
FigmaParsed == "figma.parsed"
FigmaFailed == "figma.failed"
CodegenRequested == "codegen.requested"
CodegenComplete == "codegen.complete"
CodegenFailed == "codegen.failed"
SandboxBuildRequested == "sandbox.build.requested"
SandboxReady == "sandbox.ready"
SandboxFailed == "sandbox.failed"
DiffRequested == "diff.requested"
DiffComplete == "diff.complete"
DiffFailed == "diff.failed"
NotifyRequested == "notify.requested"
ScreenDone == "screen.done"
JobDone == "job.done"
JobFailed == "job.failed"

\* keys a worker's queue is bound to
Requested == {ParseFigmaRequested, CodegenRequested, SandboxBuildRequested, DiffRequested}

(* ----------------------------- helpers --------------------------------- *)

Range(s) == {s[i] : i \in DOMAIN s}

RECURSIVE SeqToBag(_)
SeqToBag(s) == IF s = <<>> THEN EmptyBag ELSE SetToBag({Head(s)}) (+) SeqToBag(Tail(s))

SelectRequested(s) == SelectSeq(s, LAMBDA m : m.key \in Requested)

\* what the log of published messages keeps of a message: its routing key and
\* the job or unit it is about (screen index -1 and no platform for a job)
Class(m) ==
    IF "si" \in DOMAIN m THEN <<m.key, m.job, m.si, m.pl>>
    ELSE IF "name" \in DOMAIN m THEN <<m.key, m.job, m.name, m.pl>>
    ELSE <<m.key, m.job, -1, "">>

\* routing keys the log counts
Logged == {CodegenRequested, NotifyRequested, ScreenDone, JobDone, JobFailed}

RECURSIVE Classes(_)
Classes(s) ==
    IF s = <<>> THEN EmptyBag
    ELSE (IF Head(s).key \in Logged THEN SetToBag({Class(Head(s))}) ELSE EmptyBag)
             (+) Classes(Tail(s))

(* ------------------------------ messages ------------------------------- *)

\* a design is identified by the number of screens the parser extracts from it
JobSubmittedPayload(j, d, ps, th) ==
    [key |-> JobSubmitted, job |-> j, design |-> d, platforms |-> ps, threshold |-> th]

ParseFigmaRequestedPayload(j, d) == [key |-> ParseFigmaRequested, job |-> j, design |-> d]

FigmaParsedPayload(j, n) == [key |-> FigmaParsed, job |-> j, screens |-> n]

FigmaFailedPayload(j) == [key |-> FigmaFailed, job |-> j, error |-> "parse"]

CodegenRequestedPayload(j, si, pl, prev, it, th) ==
    [key |-> CodegenRequested, job |-> j, si |-> si, pl |-> pl,
     prev |-> prev, iter |-> it, threshold |-> th]

\* codegen.complete, sandbox.build.requested, sandbox.ready and diff.requested
\* carry the same unit fields
StagePayload(k, j, si, pl, it, th) ==
    [key |-> k, job |-> j, si |-> si, pl |-> pl, iter |-> it, threshold |-> th]

\* codegen.failed, sandbox.failed, diff.failed
UnitFailedPayload(k, j, si, pl) == [key |-> k, job |-> j, si |-> si, pl |-> pl]

DiffCompletePayload(j, si, pl, it, sc, th, passed) ==
    [key |-> DiffComplete, job |-> j, si |-> si, pl |-> pl, iter |-> it,
     score |-> sc, threshold |-> th, passed |-> passed]

NotifyRequestedPayload(j, name, pl, sc, it) ==
    [key |-> NotifyRequested, job |-> j, name |-> name, pl |-> pl,
     score |-> sc, iterations |-> it]

ScreenDonePayload(j, si, pl, sc, it) ==
    [key |-> ScreenDone, job |-> j, si |-> si, pl |-> pl, score |-> sc, iterations |-> it]

\* avg_score is the exact quotient num/den
JobDonePayload(j, n, ps, avg, ti) ==
    [key |-> JobDone, job |-> j, screens |-> n, platforms |-> ps,
     avg_score |-> avg, total_iter |-> ti]

JobFailedPayload(j, e, step) == [key |-> JobFailed, job |-> j, error |-> e, step |-> step]

(* ----------------------------- job registry ---------------------------- *)

screenKey(j, si, pl) == <<j, si, pl>>

screenState == [Iteration |-> 0, BestScore |-> 0, Done |-> FALSE]

\* Screens is the length of the screen list; screen i is named i
jobState(ps, th) ==
    [Platforms |-> ps, Screens |-> 0,
     ScreenStates |-> [k \in {} |-> screenState], TotalWork |-> 0,
     Completed |-> 0, TotalScore |-> 0, TotalIter |-> 0, Threshold |-> th]

\* result of a handler: the registry it leaves, the messages it published
\* in order, and whether the delivery is acked or nacked with requeue
Result(J, out, res) == [jobs |-> J, out |-> out, res |-> res]

(* ------------------------------- helpers ------------------------------- *)

requestCodegen(J, j, si, pl, prev, it) ==
    LET threshold == IF j \in DOMAIN J THEN J[j].Threshold ELSE DefaultThreshold
    IN  CodegenRequestedPayload(j, si, pl, prev, it, threshold)

completeJob(J, j) ==
    LET present == j \in DOMAIN J
        avgScore == IF present /\ J[j].Completed > 0
                    THEN [num |-> J[j].TotalScore, den |-> J[j].Completed]
                    ELSE [num |-> 0, den |-> 1]
        totalIter == IF present THEN J[j].TotalIter ELSE 0
        platforms == IF present THEN J[j].Platforms ELSE <<>>
        screens == IF present THEN J[j].Screens ELSE 0
    IN  Result([k \in DOMAIN J \ {j} |-> J[k]],
               <<JobDonePayload(j, screens, platforms, avgScore, totalIter)>>, "ack")

\* the counters advanced without the unit being marked done
counted_notDone(J, j, si, pl, score, iterations) ==
    [J EXCEPT ![j] = [J[j] EXCEPT !.Completed = @ + 1,
                                   !.TotalScore = @ + score,
                                   !.TotalIter = @ + iterations]]

\* the section of advanceOrComplete that runs under the locks: the registry
\* as it is when the locks are released
counted(J, j, si, pl, score, iterations) ==
    LET js == J[j]
        key == screenKey(j, si, pl)
        states == IF key \in DOMAIN js.ScreenStates
                  THEN [js.ScreenStates EXCEPT ![key].Done = TRUE]
                  ELSE js.ScreenStates
    IN  [J EXCEPT ![j] = [js EXCEPT !.ScreenStates = states,
                                    !.Completed = @ + 1,
                                    !.TotalScore = @ + score,
                                    !.TotalIter = @ + iterations]]

advanceOrComplete(J, j, si, pl, score, iterations) ==
    IF j \notin DOMAIN J THEN Result(J, <<>>, "ack")
    ELSE
    LET J1 == counted(J, j, si, pl, score, iterations)
        completed == J1[j].Completed
        total == J1[j].TotalWork
        screens == J1[j].Screens
        states == J1[j].ScreenStates
        done == IF si < screens
                THEN <<ScreenDonePayload(j, si, pl, score, iterations)>>
                ELSE <<>>
        nextIdx == si + 1
        nextKey == screenKey(j, nextIdx, pl)
    IN  IF /\ nextIdx < screens
           /\ nextKey \in DOMAIN states
           /\ ~states[nextKey].Done
        THEN Result(J1, done \o <<requestCodegen(J1, j, nextIdx, pl, Nil, 1)>>, "ack")
        ELSE IF completed >= total
        THEN LET c == completeJob(J1, j) IN Result(c.jobs, done \o c.out, c.res)
        ELSE Result(J1, done, "ack")

(* --------------------------- event handlers ---------------------------- *)

onJobSubmitted(J, p) ==
    LET js == jobState(p.platforms, p.threshold)
    IN  Result([k \in DOMAIN J \cup {p.job} |-> IF k = p.job THEN js ELSE J[k]],
               <<ParseFigmaRequestedPayload(p.job, p.design)>>, "ack")

\* the fan-out that stops after the first platform
FanOut_firstOnly(J, j, ps) ==
    IF ps = <<>> THEN <<>> ELSE <<requestCodegen(J, j, 0, Head(ps), Nil, 1)>>

RECURSIVE FanOut(_, _, _)
\* one codegen.requested for screen 0 per platform, in platform order
FanOut(J, j, ps) ==
    IF ps = <<>> THEN <<>>
    ELSE <<requestCodegen(J, j, 0, Head(ps), Nil, 1)>> \o FanOut(J, j, Tail(ps))

\* the fan-out without the test for an empty screen list before it
onFigmaParsed_noEmptyCase(J, p) ==
    IF p.job \notin DOMAIN J THEN Result(J, <<>>, "nack")
    ELSE
    LET js == J[p.job]
        js1 == [js EXCEPT !.Screens = p.screens,
                          !.TotalWork = p.screens * Len(js.Platforms)]
        J1 == [J EXCEPT ![p.job] = js1]
    IN  Result(J1, FanOut(J1, p.job, js1.Platforms), "ack")

onFigmaParsed(J, p) ==
    IF p.job \notin DOMAIN J THEN Result(J, <<>>, "nack")
    ELSE
    LET js == J[p.job]
        fresh == {screenKey(p.job, i, pl) : i \in 0..(p.screens - 1), pl \in Range(js.Platforms)}
        states == [k \in DOMAIN js.ScreenStates \cup fresh |->
                      IF k \in fresh THEN screenState ELSE js.ScreenStates[k]]
        js1 == [js EXCEPT !.Screens = p.screens,
                          !.TotalWork = p.screens * Len(js.Platforms),
                          !.ScreenStates = states]
        J1 == [J EXCEPT ![p.job] = js1]
    IN  IF p.screens = 0 THEN completeJob(J1, p.job)
        ELSE Result(J1, FanOut(J1, p.job, js1.Platforms), "ack")

onFigmaFailed(J, p) ==
    Result(J, <<JobFailedPayload(p.job, p.error, "figma_parse")>>, "ack")

\* a forwarding handler that records the iteration it forwards
onCodegenComplete_recordsIteration(J, p) ==
    LET key == screenKey(p.job, p.si, p.pl)
        J1 == IF p.job \in DOMAIN J /\ key \in DOMAIN J[p.job].ScreenStates
              THEN [J EXCEPT ![p.job].ScreenStates[key].Iteration = p.iter]
              ELSE J
    IN  Result(J1, <<StagePayload(SandboxBuildRequested, p.job, p.si, p.pl, p.iter, p.threshold)>>,
               "ack")

onCodegenComplete(J, p) ==
    Result(J, <<StagePayload(SandboxBuildRequested, p.job, p.si, p.pl, p.iter, p.threshold)>>,
           "ack")

\* a failed generation counted as one iteration
onCodegenFailed_oneIteration(J, p) == advanceOrComplete(J, p.job, p.si, p.pl, 0, 1)

onCodegenFailed(J, p) == advanceOrComplete(J, p.job, p.si, p.pl, 0, 0)

onSandboxReady(J, p) ==
    Result(J, <<StagePayload(DiffRequested, p.job, p.si, p.pl, p.iter, p.threshold)>>, "ack")

\* a failed build failing the whole job
onSandboxFailed_failsJob(J, p) ==
    Result(J, <<JobFailedPayload(p.job, "build", "sandbox")>>, "ack")

onSandboxFailed(J, p) == advanceOrComplete(J, p.job, p.si, p.pl, 0, 0)

\* the ceiling tested one iteration late
maxIterReached_late(it) == it > MaxIter

\* the iteration ceiling test of the diff.complete decision
maxIterReached(it) == it >= MaxIter

\* the refinement request without the diff it answers
refine_noDiff(J, p) == requestCodegen(J, p.job, p.si, p.pl, Nil, p.iter + 1)

\* the request that feeds a failed diff back to the generator
refine(J, p) == requestCodegen(J, p.job, p.si, p.pl, {p.score}, p.iter + 1)

onDiffComplete(J, p) ==
    IF p.job \notin DOMAIN J THEN Result(J, <<>>, "nack")
    ELSE IF screenKey(p.job, p.si, p.pl) \notin DOMAIN J[p.job].ScreenStates
    THEN Result(J, <<>>, "nack")
    ELSE
    LET key == screenKey(p.job, p.si, p.pl)
        ss == J[p.job].ScreenStates[key]
        ss1 == [ss EXCEPT !.Iteration = p.iter,
                          !.BestScore = IF p.score > @ THEN p.score ELSE @]
        J1 == [J EXCEPT ![p.job].ScreenStates[key] = ss1]
    IN  IF p.passed
        THEN LET a == advanceOrComplete(J1, p.job, p.si, p.pl, p.score, p.iter)
             IN  Result(a.jobs,
                        <<NotifyRequestedPayload(p.job, p.si, p.pl, p.score, p.iter)>> \o a.out,
                        a.res)
        ELSE IF maxIterReached(p.iter)
        THEN advanceOrComplete(J1, p.job, p.si, p.pl, p.score, p.iter)
        ELSE Result(J1, <<refine(J1, p)>>, "ack")

onDiffFailed(J, p) == advanceOrComplete(J, p.job, p.si, p.pl, 0, 0)


\* keys of the orchestrator's subscriptions
Subscribed ==
    {JobSubmitted, FigmaParsed, FigmaFailed, CodegenComplete, CodegenFailed,
     SandboxReady, SandboxFailed, DiffComplete, DiffFailed}

\* a delivery with routing key k whose body is no JSON envelope
MalformedBody(k) == [key |-> k, body |-> "not json"]

\* events.Unwrap: the payload of the delivery, or the decoder's error
Unwrap(m) == [err |-> "body" \in DOMAIN m, payload |-> m]

\* the handler each subscription of Run hands its deliveries to; every
\* handler starts by unwrapping the body and returns the decoder's error
handler(J, m) ==
    IF Unwrap(m).err THEN Result(J, <<>>, "nack") ELSE
    CASE m.key = JobSubmitted -> onJobSubmitted(J, m)
      [] m.key = FigmaParsed -> onFigmaParsed(J, m)
      [] m.key = FigmaFailed -> onFigmaFailed(J, m)
      [] m.key = CodegenComplete -> onCodegenComplete(J, m)
      [] m.key = CodegenFailed -> onCodegenFailed(J, m)
      [] m.key = SandboxReady -> onSandboxReady(J, m)
      [] m.key = SandboxFailed -> onSandboxFailed(J, m)
      [] m.key = DiffComplete -> onDiffComplete(J, m)
      [] m.key = DiffFailed -> onDiffFailed(J, m)

(* ------------------------------- workers ------------------------------- *)

\* The workers are stateless: each takes a request off its queue and publishes
\* one answer that depends on the request alone.  The answer is put on the bus
\* together with the request; when it is delivered stays open.

\* figma-parser: the screens of the design, or figma.failed
figmaParser(p) == {FigmaParsedPayload(p.job, p.design), FigmaFailedPayload(p.job)}

\* codegen: the generated code for the iteration asked for, or codegen.failed
codegen(p) ==
    {StagePayload(CodegenComplete, p.job, p.si, p.pl, p.iter, p.threshold),
     UnitFailedPayload(CodegenFailed, p.job, p.si, p.pl)}

\* sandbox: the running container, or sandbox.failed
sandbox(p) ==
    {StagePayload(SandboxReady, p.job, p.si, p.pl, p.iter, p.threshold),
     UnitFailedPayload(SandboxFailed, p.job, p.si, p.pl)}

\* differ: the pixel comparison with its verdict, or diff.failed
differ(p) ==
    {DiffCompletePayload(p.job, p.si, p.pl, p.iter, score, p.threshold,
                         score >= p.threshold) : score \in Scores}
        \cup {UnitFailedPayload(DiffFailed, p.job, p.si, p.pl)}

worker(p) ==
    CASE p.key = ParseFigmaRequested -> figmaParser(p)
      [] p.key = CodegenRequested -> codegen(p)
      [] p.key = SandboxBuildRequested -> sandbox(p)
      [] p.key = DiffRequested -> differ(p)

RECURSIVE Answers(_)
\* the possible answers to a sequence of requests, one answer for each
Answers(reqs) ==
    IF reqs = <<>> THEN {<<>>}
    ELSE {<<a>> \o rest : a \in worker(Head(reqs)), rest \in Answers(Tail(reqs))}

(* ------------------------------- ingress ------------------------------- *)

\* the last exchange on POST /api/jobs: the request body, whether the
\* publish succeeded, and the response; none so far
NoExchange == [code |-> 0]

Exchange(req, ok, code, j, status, error) ==
    [req |-> req, ok |-> ok, code |-> code, job_id |-> j, status |-> status,
     error |-> error]

\* a platform list of react alone in place of an empty one
DefaultPlatforms_reactOnly == <<"react">>

\* the platform list handleCreateJob puts in place of an empty one
DefaultPlatforms == <<"react", "kmp">>

\* POST /api/jobs.  A body that is no JSON has the field body, a body
\* without figma_url has no field design.  ok says whether the broker takes
\* the publish; the job id is a fresh uuid.
handleCreateJob(req, ok) ==
    /\ alive
    /\ unused # {}
    /\ IF "body" \in DOMAIN req
       THEN /\ http' = Exchange(req, ok, 400, "", "", "invalid body")
            /\ UNCHANGED <<bus, unused>>
       ELSE IF "design" \notin DOMAIN req
       THEN /\ http' = Exchange(req, ok, 400, "", "", "figma_url required")
            /\ UNCHANGED <<bus, unused>>
       ELSE \E j \in unused :
            LET platforms == IF Len(req.platforms) = 0 THEN DefaultPlatforms
                             ELSE req.platforms
                threshold == IF req.threshold = 0 THEN DefaultThreshold
                             ELSE req.threshold
                p == JobSubmittedPayload(j, req.design, platforms, threshold)
            IN  IF ok
                THEN /\ bus' = bus (+) SetToBag({p})
                     /\ unused' = unused \ {j}
                     /\ http' = Exchange(req, ok, 201, j, "queued", "")
                ELSE /\ http' = Exchange(req, ok, 500, "", "", "queue error")
                     /\ UNCHANGED <<bus, unused>>
    /\ UNCHANGED <<jobs, sent, redelivered, store, alive>>
    /\ UNCHANGED runtime

(* --------------------------- delivery loop ----------------------------- *)

\* SUPABASE_URL: empty, the address of a store, an address url.Parse rejects
StoreURLs == {"", "http://db", "http://[::1"}

\* Store.post and Store.patch on a store configured with url: the write is
\* skipped when url is empty; the request is sent, and the store takes it or
\* the write fails; for an address that does not parse NewRequestWithContext
\* returns no request and headers dereferences nil
write(url) ==
    IF url = "" THEN {"skipped"}
    ELSE IF url = "http://[::1" THEN {"panic"}
    ELSE {"written", "error"}

\* where the handler of delivery m makes its first store write: before any
\* publish (CreateJob, UpdateJobScreenCount, MarkJobFailed, SaveIteration),
\* after the publishes that precede job.done (MarkJobDone in completeJob),
\* or nowhere; r is what the handler does when the write returns
storeWrite(J, m, r) ==
    IF Unwrap(m).err THEN "none"
    ELSE IF m.key \in {JobSubmitted, FigmaFailed} THEN "first"
    ELSE IF m.key = FigmaParsed /\ m.job \in DOMAIN J THEN "first"
    ELSE IF /\ m.key = DiffComplete
            /\ m.job \in DOMAIN J
            /\ screenKey(m.job, m.si, m.pl) \in DOMAIN J[m.job].ScreenStates
    THEN "first"
    ELSE IF \E o \in Range(r.out) : o.key = JobDone THEN "last"
    ELSE "none"

\* what becomes of the handler's result r when its store writes have outcome
\* w.  The outcome of a write is dropped (_ = o.store...), so the handler
\* goes on as without it; a write that panics ends the process with what was
\* published before it
stored(J, m, w, r) ==
    IF w = "panic" /\ storeWrite(J, m, r) = "first"
    THEN Result([j \in {} |-> jobState(<<>>, 0)], <<>>, "panic")
    ELSE IF w = "panic" /\ storeWrite(J, m, r) = "last"
    THEN Result([j \in {} |-> jobState(<<>>, 0)],
                SelectSeq(r.out, LAMBDA o : o.key # JobDone), "panic")
    ELSE r

\* the handler of delivery m with outcome w of its store writes
handled(J, m, w) == stored(J, m, w, handler(J, m))

\* consume once the handler has come to result r: the registry is as the
\* handler left it, its messages are on the exchange with the workers'
\* answers to the requests among them, and the delivery is acked, or stays
\* with the broker when it is nacked, when the ack is lost, or when the
\* process has gone down
settle(m, lost, r) ==
    /\ lost => redelivered < MaxRedeliver /\ r.res = "ack"
    /\ jobs' = r.jobs
    /\ sent' = sent (+) Classes(r.out)
    /\ \E answers \in Answers(SelectRequested(r.out)) :
          bus' = (IF lost \/ r.res # "ack" THEN bus ELSE bus (-) SetToBag({m}))
                     (+) SeqToBag(answers)
    /\ redelivered' = IF lost THEN redelivered + 1 ELSE redelivered
    /\ alive' = (r.res # "panic")

\* consume: one delivery m of the subscription bound to routing key k is
\* handed to its handler and acked, or nacked with requeue when the handler
\* returns an error.  lost says that the ack does not reach the broker, which
\* then delivers m again.  A handler that panics takes the process down and
\* the delivery stays unanswered.
consume(k, m, lost) ==
    /\ alive
    /\ BagIn(m, bus)
    /\ m.key = k
    /\ \E w \in write(store) : settle(m, lost, handled(jobs, m, w))
    /\ UNCHANGED <<unused, http, store>>
    /\ UNCHANGED runtime

JobSubmittedDelivery == \E m \in BagToSet(bus), lost \in BOOLEAN :
    consume(JobSubmitted, m, lost)

FigmaParsedDelivery == \E m \in BagToSet(bus), lost \in BOOLEAN :
    consume(FigmaParsed, m, lost)

FigmaFailedDelivery == \E m \in BagToSet(bus), lost \in BOOLEAN :
    consume(FigmaFailed, m, lost)

CodegenCompleteDelivery == \E m \in BagToSet(bus), lost \in BOOLEAN :
    consume(CodegenComplete, m, lost)

CodegenFailedDelivery == \E m \in BagToSet(bus), lost \in BOOLEAN :
    consume(CodegenFailed, m, lost)

SandboxReadyDelivery == \E m \in BagToSet(bus), lost \in BOOLEAN :
    consume(SandboxReady, m, lost)

SandboxFailedDelivery == \E m \in BagToSet(bus), lost \in BOOLEAN :
    consume(SandboxFailed, m, lost)

DiffCompleteDelivery == \E m \in BagToSet(bus), lost \in BOOLEAN :
    consume(DiffComplete, m, lost)

DiffFailedDelivery == \E m \in BagToSet(bus), lost \in BOOLEAN :
    consume(DiffFailed, m, lost)

(* ---------------------------- specification ---------------------------- *)

Init ==
    /\ jobs = [j \in {} |-> jobState(<<>>, 0)]
    /\ bus = EmptyBag
    /\ sent = EmptyBag
    /\ unused = JobIds
    /\ redelivered = 0
    /\ http = NoExchange
    /\ store = ""
    /\ alive = TRUE
    /\ ctx = "live"
    /\ tasks = <<>>
    /\ chans = <<>>
    /\ taken = <<>>
    /\ bc = <<>>
    /\ send = <<>>

Next ==
    \/ \E req \in Requests, ok \in BOOLEAN : handleCreateJob(req, ok)
    \/ JobSubmittedDelivery
    \/ FigmaParsedDelivery
    \/ FigmaFailedDelivery
    \/ CodegenCompleteDelivery
    \/ CodegenFailedDelivery
    \/ SandboxReadyDelivery
    \/ SandboxFailedDelivery
    \/ DiffCompleteDelivery
    \/ DiffFailedDelivery

Spec == Init /\ [][Next]_vars


(* ------------------------- several platforms --------------------------- *)

\* request bodies that leave the platform list to the default: two platforms
\* whose units run side by side.  SpecPlatforms runs the orchestrator with
\* these.
PlatformRequests == { [design |-> 1, platforms |-> <<>>, threshold |-> 60] }

NextPlatforms ==
    \/ \E req \in PlatformRequests, ok \in BOOLEAN : handleCreateJob(req, ok)
    \/ JobSubmittedDelivery
    \/ FigmaParsedDelivery
    \/ FigmaFailedDelivery
    \/ CodegenCompleteDelivery
    \/ CodegenFailedDelivery
    \/ SandboxReadyDelivery
    \/ SandboxFailedDelivery
    \/ DiffCompleteDelivery
    \/ DiffFailedDelivery

SpecPlatforms == Init /\ [][NextPlatforms]_vars

(* -------------------------- open environment --------------------------- *)

\* The bus is a topic exchange any publisher can reach, and POST /api/jobs
\* accepts any platform list.  SpecOpen runs the orchestrator with a client
\* that names a platform twice and with a publisher of undecodable bodies.

\* request bodies with a platform list that is no set
OpenRequests == { [design |-> 1, platforms |-> <<"react", "react">>, threshold |-> 60] }

RECURSIVE Copies(_, _)
\* number of copies in bag B of the elements of set S
Copies(S, B) ==
    IF S = {} THEN 0
    ELSE LET x == CHOOSE y \in S : TRUE IN CopiesIn(x, B) + Copies(S \ {x}, B)

\* a publisher puts an undecodable body on the exchange with routing key k
PublishMalformed(k) ==
    /\ Copies({MalformedBody(k2) : k2 \in Subscribed}, bus) < MaxMalformed
    /\ bus' = bus (+) SetToBag({MalformedBody(k)})
    /\ UNCHANGED <<jobs, sent, unused, redelivered, http, store, alive>>
    /\ UNCHANGED runtime

NextOpen ==
    \/ \E req \in OpenRequests, ok \in BOOLEAN : handleCreateJob(req, ok)
    \/ \E k \in Subscribed : PublishMalformed(k)
    \/ JobSubmittedDelivery
    \/ FigmaParsedDelivery
    \/ FigmaFailedDelivery
    \/ CodegenCompleteDelivery
    \/ CodegenFailedDelivery
    \/ SandboxReadyDelivery
    \/ SandboxFailedDelivery
    \/ DiffCompleteDelivery
    \/ DiffFailedDelivery

SpecOpen == Init /\ [][NextOpen]_vars

(* ------------------------- terms of the properties --------------------- *)

\* the deliveries the orchestrator may be handed next
Deliveries == BagToSet(bus)

\* what handling delivery m in the present state publishes, leaves, returns
Handled(m) == handler(jobs, m)

Failed == {CodegenFailed, SandboxFailed, DiffFailed}

OfUnit(m) == m.key \in Failed \cup {CodegenComplete, SandboxReady, DiffComplete}

Registered(m) == m.job \in DOMAIN jobs

KnownUnit(m) == Registered(m) /\ screenKey(m.job, m.si, m.pl) \in DOMAIN jobs[m.job].ScreenStates

UnitOf(m) == jobs[m.job].ScreenStates[screenKey(m.job, m.si, m.pl)]

\* m makes its handler call advanceOrComplete on a job of the registry
Terminal(m) ==
    /\ OfUnit(m)
    /\ Registered(m)
    /\ \/ m.key \in Failed
       \/ m.key = DiffComplete /\ KnownUnit(m) /\ (m.passed \/ maxIterReached(m.iter))

\* the registry when the handler of terminal delivery m releases the locks
Counted(m) ==
    IF m.key \in Failed THEN counted(jobs, m.job, m.si, m.pl, 0, 0)
    ELSE counted(jobs, m.job, m.si, m.pl, m.score, m.iter)

\* number of messages with routing key k published so far for a unit or job
Published(k, j, si, pl) == CopiesIn(<<k, j, si, pl>>, sent)

Count(out, k) == Len(SelectSeq(out, LAMBDA o : o.key = k))

ScreenDones(out) == {o \in Range(out) : o.key = ScreenDone}

(* ------------------------------ properties ----------------------------- *)

\* C1: for every job of the registry, at every moment the registry can be
\* observed (between handlers, and when advanceOrComplete releases its locks),
\* completed <= total_work.
C1_CompletedWithinTotalWork ==
    /\ \A j \in DOMAIN jobs : jobs[j].Completed <= jobs[j].TotalWork
    /\ \A m \in Deliveries :
          Terminal(m) => Counted(m)[m.job].Completed <= Counted(m)[m.job].TotalWork

\* C2: a terminal event for a unit that is already done, or for a
\* (screen_index, platform) that is no unit of the job, leaves completed,
\* total_score and total_iter unchanged.
C2_CountedOncePerUnit ==
    \A m \in Deliveries :
        Terminal(m) /\ (~KnownUnit(m) \/ UnitOf(m).Done)
            => /\ Counted(m)[m.job].Completed = jobs[m.job].Completed
               /\ Counted(m)[m.job].TotalScore = jobs[m.job].TotalScore
               /\ Counted(m)[m.job].TotalIter = jobs[m.job].TotalIter

\* C3: over the whole run at most one terminal job event is published for a
\* job: one job.done or one job.failed, never both, never one of them twice.
C3_OneTerminalJobEvent ==
    \A j \in JobIds : Published(JobDone, j, -1, "") + Published(JobFailed, j, -1, "") <= 1

\* C4: for every unit exactly one screen.done is published: never two for the
\* same unit, and not zero for a unit that is done.
C4_OneScreenDonePerUnit ==
    /\ \A c \in BagToSet(sent) : c[1] = ScreenDone => CopiesIn(c, sent) <= 1
    /\ \A j \in DOMAIN jobs : \A u \in DOMAIN jobs[j].ScreenStates :
          jobs[j].ScreenStates[u].Done => Published(ScreenDone, j, u[2], u[3]) >= 1

\* C5: once a unit is done, handling a late or redelivered codegen.complete,
\* sandbox.ready or diff.complete for it publishes no codegen.requested,
\* sandbox.build.requested or diff.requested for that unit.
C5_NoRequestsAfterDone ==
    \A m \in Deliveries :
        /\ m.key \in {CodegenComplete, SandboxReady, DiffComplete}
        /\ KnownUnit(m)
        /\ UnitOf(m).Done
        => \A o \in Range(Handled(m).out) :
               o.key \in {CodegenRequested, SandboxBuildRequested, DiffRequested}
                   => ~(o.job = m.job /\ o.si = m.si /\ o.pl = m.pl)

C7_PassedTerminatesAboveThreshold ==
    \A m \in Deliveries : \A o \in ScreenDones(Handled(m).out) :
        \/ m.key = DiffComplete /\ m.passed
        \/ Published(NotifyRequested, o.job, o.si, o.pl) > 0
        => o.score >= jobs[o.job].Threshold

\* C8: no codegen.requested is published with an iteration above max_iter,
\* and no unit terminates with iterations above max_iter.
C8_IterationsWithinMaxIter ==
    \A m \in Deliveries : \A o \in Range(Handled(m).out) :
        /\ o.key = CodegenRequested => o.iter <= MaxIter
        /\ o.key = ScreenDone => o.iterations <= MaxIter

\* a unit at its last iteration without passing terminates with max_iter
C8_Witness ==
    \E m \in Deliveries :
        /\ m.key = DiffComplete /\ KnownUnit(m) /\ ~m.passed /\ m.iter = MaxIter
        /\ \E o \in ScreenDones(Handled(m).out) : o.iterations = MaxIter


\* the unit of diff.complete m is advanced with (score, iteration)
Advanced(m) ==
    LET r == Handled(m)
        before == jobs[m.job]
    IN  /\ Count(r.out, ScreenDone) = 1
        /\ ScreenDonePayload(m.job, m.si, m.pl, m.score, m.iter) \in Range(r.out)
        /\ \A o \in Range(r.out) :
              o.key = CodegenRequested => ~(o.si = m.si /\ o.pl = m.pl)
        /\ m.job \in DOMAIN r.jobs
              => /\ r.jobs[m.job].ScreenStates[screenKey(m.job, m.si, m.pl)].Done
                 /\ r.jobs[m.job].Completed = before.Completed + 1
                 /\ r.jobs[m.job].TotalScore = before.TotalScore + m.score
                 /\ r.jobs[m.job].TotalIter = before.TotalIter + m.iter

\* C9: a diff.complete for a known unit takes exactly one of three branches,
\* chosen by passed = (score >= threshold), iteration and max_iter: passed
\* publishes notify.requested and advances the unit with (score, iteration);
\* not passed at iteration >= max_iter advances it with (score, iteration)
\* and publishes no notify.requested; otherwise exactly one codegen.requested
\* with iteration+1 and prev_diff = the received diff is published and the
\* unit is not marked done.
C9_DiffCompleteDecision ==
    \A m \in Deliveries :
        m.key = DiffComplete /\ KnownUnit(m)
        => LET r == Handled(m)
               th == jobs[m.job].Threshold
           IN  /\ m.passed = (m.score >= th)
               /\ r.res = "ack"
               /\ IF m.score >= th
                  THEN Count(r.out, NotifyRequested) = 1 /\ Advanced(m)
                  ELSE IF m.iter >= MaxIter
                  THEN Count(r.out, NotifyRequested) = 0 /\ Advanced(m)
                  ELSE /\ r.out = <<CodegenRequestedPayload(m.job, m.si, m.pl,
                                                           {m.score}, m.iter + 1, th)>>
                       /\ m.job \in DOMAIN r.jobs
                       /\ r.jobs[m.job].ScreenStates[screenKey(m.job, m.si, m.pl)].Done = UnitOf(m).Done
                       /\ r.jobs[m.job].Completed = jobs[m.job].Completed

\* a failing diff below the ceiling is handled: the refinement branch is taken
\* and the diff is fed back with the next iteration
C9_Witness ==
    \E m \in Deliveries :
        /\ m.key = DiffComplete /\ KnownUnit(m) /\ ~UnitOf(m).Done
        /\ ~m.passed /\ m.iter < MaxIter
        /\ \E o \in Range(Handled(m).out) :
              o.key = CodegenRequested /\ o.prev = {m.score} /\ o.iter = m.iter + 1

\* C10: a worker failure (codegen.failed, sandbox.failed, diff.failed) for a
\* unit of a job never fails the job: the unit is advanced as done with
\* score 0 and iterations 0 and its screen.done is published with those
\* values, the next screen of the platform, if there is one not yet done, is
\* started at iteration 1, the job ends with job.done when this was its last
\* work, and job.failed is published by the figma.failed handler alone, with
\* step "figma_parse".
C10_WorkerFailureAdvancesUnit ==
    \A m \in Deliveries :
        /\ m.key \in Failed /\ KnownUnit(m)
           => LET r == Handled(m)
                  js == jobs[m.job]
                  next == screenKey(m.job, m.si + 1, m.pl)
                  hasNext == /\ m.si + 1 < js.Screens
                             /\ next \in DOMAIN js.ScreenStates
                             /\ ~js.ScreenStates[next].Done
              IN  /\ r.res = "ack"
                  /\ Count(r.out, ScreenDone) = 1
                  /\ ScreenDonePayload(m.job, m.si, m.pl, 0, 0) \in Range(r.out)
                  /\ m.job \in DOMAIN r.jobs
                        => /\ r.jobs[m.job].ScreenStates[screenKey(m.job, m.si, m.pl)].Done
                           /\ r.jobs[m.job].TotalScore = js.TotalScore
                           /\ r.jobs[m.job].TotalIter = js.TotalIter
                  /\ hasNext
                        => /\ CodegenRequestedPayload(m.job, m.si + 1, m.pl, Nil, 1,
                                                      js.Threshold) \in Range(r.out)
                           /\ m.job \in DOMAIN r.jobs
                  /\ ~hasNext /\ js.Completed + 1 >= js.TotalWork
                        => Count(r.out, JobDone) = 1 /\ m.job \notin DOMAIN r.jobs
        /\ \A o \in Range(Handled(m).out) :
              o.key = JobFailed => m.key = FigmaFailed /\ o.step = "figma_parse"

\* the build of the only unit left fails and the job ends with job.done
C10_Witness ==
    \E m \in Deliveries :
        /\ m.key = SandboxFailed /\ KnownUnit(m) /\ ~UnitOf(m).Done
        /\ Count(Handled(m).out, JobDone) = 1
        /\ ScreenDonePayload(m.job, m.si, m.pl, 0, 0) \in Range(Handled(m).out)


\* number of messages with routing key k published so far for job j, for the
\* job itself or for any of its units
PublishedForJob(k, j) ==
    LET cs == {c \in BagToSet(sent) : c[1] = k /\ c[2] = j}
        RECURSIVE Sum(_)
        Sum(S) == IF S = {} THEN 0
                  ELSE LET c == CHOOSE x \in S : TRUE IN CopiesIn(c, sent) + Sum(S \ {c})
    IN  Sum(cs)

\* C11: handling figma.failed for a job publishes exactly job.failed with
\* step "figma_parse" and the reported error, and a job for which job.failed
\* is published (now or before) has no screen.done, no codegen.requested and
\* no job.done published, before or by the same handler.
C11_FigmaFailedOnlyFailsJob ==
    /\ \A m \in Deliveries :
          m.key = FigmaFailed
              => /\ Handled(m).out = <<JobFailedPayload(m.job, m.error, "figma_parse")>>
                 /\ \A k \in {ScreenDone, CodegenRequested, JobDone} :
                       PublishedForJob(k, m.job) = 0
    /\ \A j \in JobIds :
          PublishedForJob(JobFailed, j) > 0
              => \A k \in {ScreenDone, CodegenRequested, JobDone} : PublishedForJob(k, j) = 0

\* GET /api/status: the active_jobs it reports for registry J
handleStatus(J) == Cardinality(DOMAIN J)

\* C12: after the figma.failed handler has run for a job, the registry does
\* not contain the job, and active_jobs does not count it.
C12_FigmaFailedDropsJobState ==
    \A m \in Deliveries :
        m.key = FigmaFailed
            => /\ m.job \notin DOMAIN Handled(m).jobs
               /\ handleStatus(Handled(m).jobs) = Cardinality(DOMAIN jobs \ {m.job})

\* C13: handling figma.parsed with zero screens for a job of the registry
\* publishes exactly one message, job.done with screens = 0, avg_score = 0,
\* total_iter = 0 and the job's platforms (so no codegen.requested and no
\* screen.done), and removes the job from the registry.
C13_EmptyParseCompletesJob ==
    \A m \in Deliveries :
        m.key = FigmaParsed /\ Registered(m) /\ m.screens = 0
            => LET r == Handled(m)
               IN  /\ r.res = "ack"
                   /\ Len(r.out) = 1
                   /\ r.out[1].key = JobDone
                   /\ r.out[1].job = m.job
                   /\ r.out[1].screens = 0
                   /\ r.out[1].avg_score.num = 0
                   /\ r.out[1].total_iter = 0
                   /\ r.out[1].platforms = jobs[m.job].Platforms
                   /\ m.job \notin DOMAIN r.jobs

\* a parse without screens is about to be handled for a submitted job
C13_Witness ==
    \E m \in Deliveries :
        /\ m.key = FigmaParsed /\ Registered(m) /\ m.screens = 0
        /\ Count(Handled(m).out, JobDone) = 1


Parsed(m) == Registered(m) /\ DOMAIN jobs[m.job].ScreenStates # {}

\* C17: a job.submitted for a job that is already in the registry, and a
\* figma.parsed for a job that is already parsed, leave the job's JobState as
\* it is: platforms, screens, unit states and counters.
C17_SubmittedAndParsedOnce ==
    \A m \in Deliveries :
        \/ m.key = JobSubmitted /\ Registered(m)
        \/ m.key = FigmaParsed /\ Parsed(m)
        => /\ m.job \in DOMAIN Handled(m).jobs
           /\ Handled(m).jobs[m.job] = jobs[m.job]


\* C18: handling figma.parsed leaves total_work = |screens| x |platforms|,
\* equal to the number of unit states of the job, each of them done = false,
\* iteration = 0, best_score = 0; and the total_work of every job of the
\* registry is the number of its unit states - for every platform list.
C18_TotalWorkCountsUnits ==
    /\ \A m \in Deliveries :
          m.key = FigmaParsed /\ ~Unwrap(m).err /\ Registered(m) /\ m.screens > 0
              => LET js == Handled(m).jobs[m.job]
                 IN  /\ js.TotalWork = m.screens * Len(js.Platforms)
                     /\ js.TotalWork = Cardinality(DOMAIN js.ScreenStates)
                     /\ \A u \in DOMAIN js.ScreenStates : js.ScreenStates[u] = screenState
    /\ \A j \in DOMAIN jobs : jobs[j].TotalWork = Cardinality(DOMAIN jobs[j].ScreenStates)

\* C19: a delivery whose envelope or payload cannot be decoded is nacked
\* without requeue: the handler's error makes the delivery loop drop it.
C19_MalformedDropped ==
    \A m \in Deliveries : Unwrap(m).err => Handled(m).res = "drop"


\* C20: an event for a job that is not in the registry never changes the
\* registry, and when it is nacked with requeue and delivered again with the
\* job still absent, it is not requeued a second time.
C20_AbsentJobRequeuedOnce ==
    \A m \in Deliveries :
        m.key # JobSubmitted /\ ~Registered(m)
            => LET first == Handled(m)
               IN  /\ first.jobs = jobs
                   /\ first.res = "nack" => handler(first.jobs, m).res # "nack"

(* ------------------------ the tasks of Run ----------------------------- *)

\* Run starts one task for each subscription, one for the hub and one for the
\* HTTP server, all under one errgroup context.  Here the delivery loop is
\* followed step by step: a task is named by its queue's routing key and
\* tasks[t].at is the statement it stands at.

\* deliveries the broker hands to one subscription
MaxDeliveries == 2

\* the subscriptions followed, and the bodies the broker delivers on each:
\* an undecodable body, an event of a job the registry does not hold
LoopSubs == {DiffComplete, DiffFailed}

LoopBodies(q) ==
    IF q = DiffComplete
    THEN {MalformedBody(q), DiffCompletePayload("j1", 0, "react", 1, 90, 60, TRUE)}
    ELSE {MalformedBody(q), UnitFailedPayload(q, "j1", 0, "react")}

\* a delivery taken from the channel, with the acks and nacks sent for it
\* and whether its handler returned an error
Delivery(m) == [msg |-> m, acks |-> 0, nacks |-> 0, err |-> FALSE]

\* main: SIGINT or SIGTERM cancels the context
cancel ==
    /\ ctx = "live"
    /\ ctx' = "done"
    /\ UNCHANGED <<jobs, bus, sent, unused, redelivered, http, store, alive, tasks, chans, taken, bc, send>>

\* a broker without a prefetch limit: the next delivery is handed over while
\* the one before is unanswered
Deliver_noPrefetch(q, m) ==
    /\ ~chans[q].closed
    /\ chans[q].buf = <<>>
    /\ Len(taken[q]) < MaxDeliveries
    /\ chans' = [chans EXCEPT ![q].buf = <<m>>]
    /\ UNCHANGED <<jobs, bus, sent, unused, redelivered, http, store, alive, ctx, tasks, taken, bc, send>>

\* the broker hands the subscription its next delivery; with prefetch 1 it
\* waits until the one before is answered
Deliver(q, m) ==
    /\ ~chans[q].closed
    /\ chans[q].buf = <<>>
    /\ Len(taken[q]) < MaxDeliveries
    /\ \A i \in DOMAIN taken[q] : taken[q][i].acks + taken[q][i].nacks > 0
    /\ chans' = [chans EXCEPT ![q].buf = <<m>>]
    /\ UNCHANGED <<jobs, bus, sent, unused, redelivered, http, store, alive, ctx, tasks, taken, bc, send>>

\* the broker's channel goes away and the delivery channel is closed
CloseDeliveries(q) ==
    /\ ~chans[q].closed
    /\ chans' = [chans EXCEPT ![q].closed = TRUE]
    /\ UNCHANGED <<jobs, bus, sent, unused, redelivered, http, store, alive, ctx, tasks, taken, bc, send>>

\* consume, case <-ctx.Done(): return nil
consumeDone(q) ==
    /\ tasks[q].at = "select"
    /\ ctx = "done"
    /\ tasks' = [tasks EXCEPT ![q] = [at |-> "exited", err |-> FALSE]]
    /\ UNCHANGED <<jobs, bus, sent, unused, redelivered, http, store, alive, ctx, chans, taken, bc, send>>

\* consume, case d, ok := <-deliveries with !ok: the task returns an error,
\* and the errgroup cancels the context of the others
consumeClosed(q) ==
    /\ tasks[q].at = "select"
    /\ chans[q].closed
    /\ chans[q].buf = <<>>
    /\ tasks' = [tasks EXCEPT ![q] = [at |-> "exited", err |-> TRUE]]
    /\ ctx' = "done"
    /\ UNCHANGED <<jobs, bus, sent, unused, redelivered, http, store, alive, chans, taken, bc, send>>

\* consume, case d, ok := <-deliveries with ok: the handler is entered
consumeReceive(q) ==
    /\ tasks[q].at = "select"
    /\ chans[q].buf # <<>>
    /\ chans' = [chans EXCEPT ![q].buf = <<>>]
    /\ taken' = [taken EXCEPT ![q] = Append(@, Delivery(Head(chans[q].buf)))]
    /\ tasks' = [tasks EXCEPT ![q].at = "handler"]
    /\ UNCHANGED <<jobs, bus, sent, unused, redelivered, http, store, alive, ctx, bc, send>>

\* the answer of consume to the delivery it holds: Ack for nil
answer_ackAlways(d, res) == [d EXCEPT !.acks = @ + 1, !.err = res = "nack"]

\* the answer of consume to the delivery it holds: Nack with requeue when
\* the handler returned an error, Ack otherwise
answer(d, res) ==
    IF res = "nack" THEN [d EXCEPT !.nacks = @ + 1, !.err = TRUE]
    ELSE [d EXCEPT !.acks = @ + 1]

\* consume: the handler returns and the delivery is answered; the loop goes
\* back to its select whatever the handler returned
consumeHandle(q) ==
    /\ tasks[q].at = "handler"
    /\ LET n == Len(taken[q])
           r == handler(jobs, taken[q][n].msg)
       IN  /\ jobs' = r.jobs
           /\ sent' = sent (+) Classes(r.out)
           /\ \E answers \in Answers(SelectRequested(r.out)) :
                 bus' = bus (+) SeqToBag(answers)
           /\ taken' = [taken EXCEPT ![q][n] = answer(@, r.res)]
    /\ tasks' = [tasks EXCEPT ![q].at = "select"]
    /\ UNCHANGED <<unused, redelivered, http, store, alive, ctx, chans, bc, send>>

InitConsume ==
    /\ jobs = [j \in {} |-> jobState(<<>>, 0)]
    /\ bus = EmptyBag
    /\ sent = EmptyBag
    /\ unused = JobIds
    /\ redelivered = 0
    /\ http = NoExchange
    /\ store = ""
    /\ alive = TRUE
    /\ ctx = "live"
    /\ tasks = [q \in LoopSubs |-> [at |-> "select", err |-> FALSE]]
    /\ chans = [q \in LoopSubs |-> [buf |-> <<>>, closed |-> FALSE]]
    /\ taken = [q \in LoopSubs |-> <<>>]
    /\ bc = <<>>
    /\ send = <<>>

NextConsume ==
    \/ cancel
    \/ \E q \in LoopSubs : \E m \in LoopBodies(q) : Deliver(q, m)
    \/ \E q \in LoopSubs : CloseDeliveries(q)
    \/ \E q \in LoopSubs : consumeDone(q)
    \/ \E q \in LoopSubs : consumeClosed(q)
    \/ \E q \in LoopSubs : consumeReceive(q)
    \/ \E q \in LoopSubs : consumeHandle(q)

SpecConsume == InitConsume /\ [][NextConsume]_vars

\* the deliveries a subscription has taken and is done with
Answered(q) ==
    {i \in DOMAIN taken[q] : i < Len(taken[q]) \/ tasks[q].at # "handler"}

\* C21: a handler error never ends the delivery loop - a task that has left
\* the loop found the context cancelled or its delivery channel closed - and
\* every delivery taken from the channel has exactly one answer once the loop
\* is past it: one ack and no nack when the handler returned nil, one nack
\* and no ack when it returned an error; the delivery in the handler has none
C21_LoopAnswersEveryDelivery ==
    \A q \in DOMAIN taken :
        /\ tasks[q].at = "exited" =>
              \/ ~tasks[q].err /\ ctx = "done"
              \/ tasks[q].err /\ chans[q].closed
        /\ \A i \in Answered(q) :
              LET d == taken[q][i]
              IN  /\ d.acks + d.nacks = 1
                  /\ d.nacks = 1 <=> d.err
        /\ \A i \in DOMAIN taken[q] \ Answered(q) :
              taken[q][i].acks + taken[q][i].nacks = 0

\* a subscription whose handler returned an error took a further delivery
C21_Witness ==
    \E q \in DOMAIN taken :
        /\ Len(taken[q]) = 2
        /\ taken[q][1].nacks = 1
        /\ taken[q][2].acks = 1
        /\ tasks[q].at = "exited"

(* -------------------- two handlers on one job -------------------------- *)

\* Each subscription has its own task, so handlers of different queues run
\* side by side on the registry.  SpecRace follows two of them statement by
\* statement: onDiffComplete with the last diff of one unit, onSandboxFailed
\* with the failure of another unit of the same job.  A step is a stretch of
\* code that holds o.mu, or one publish.

RaceTasks == {DiffComplete, SandboxFailed}

\* screens of the job the two handlers work on
RaceScreens == {1, 2}

\* the job while unit (a, react) and unit (b, kmp) are at work: the screens
\* before them are done, each passed with 90 on its first iteration; the
\* react unit has run `it` iterations, scoring `best` so far
RaceJob(n, a, b, it, best) ==
    LET done == {screenKey("j1", i, "react") : i \in 0..(a - 1)}
                    \cup {screenKey("j1", i, "kmp") : i \in 0..(b - 1)}
        keys == {screenKey("j1", i, pl) : i \in 0..(n - 1), pl \in {"react", "kmp"}}
    IN  [jobState(<<"react", "kmp">>, 80) EXCEPT
            !.Screens = n,
            !.TotalWork = 2 * n,
            !.ScreenStates =
                [k \in keys |->
                    IF k \in done THEN [Iteration |-> 1, BestScore |-> 90, Done |-> TRUE]
                    ELSE IF k = screenKey("j1", a, "react")
                    THEN [Iteration |-> it, BestScore |-> best, Done |-> FALSE]
                    ELSE screenState],
            !.Completed = Cardinality(done),
            !.TotalScore = 90 * Cardinality(done),
            !.TotalIter = Cardinality(done)]

\* a handler that holds delivery m and has published out; completed, total
\* and screens are the locals of advanceOrComplete, js the job state that
\* completeJob took out of the registry
Handling(m) ==
    [at |-> "handler", msg |-> m, out |-> <<>>,
     completed |-> 0, total |-> 0, screens |-> 0, js |-> Nil]

InitRace ==
    /\ bus = EmptyBag
    /\ sent = EmptyBag
    /\ unused = {}
    /\ redelivered = 0
    /\ http = NoExchange
    /\ store = ""
    /\ alive = TRUE
    /\ ctx = "live"
    /\ chans = <<>>
    /\ taken = <<>>
    /\ bc = <<>>
    /\ send = <<>>
    /\ \E n \in RaceScreens, a \in 0..1, b \in 0..1, last \in BOOLEAN :
          /\ a < n
          /\ b < n
          /\ jobs = [j \in {"j1"} |->
                        IF last THEN RaceJob(n, a, b, MaxIter - 1, 70)
                        ELSE RaceJob(n, a, b, 0, 0)]
          /\ tasks = [t \in RaceTasks |->
                        IF t = SandboxFailed
                        THEN Handling(UnitFailedPayload(SandboxFailed, "j1", b, "kmp"))
                        ELSE IF last
                        THEN Handling(DiffCompletePayload("j1", a, "react", MaxIter, 70, 80, FALSE))
                        ELSE Handling(DiffCompletePayload("j1", a, "react", 1, 90, 80, TRUE))]

\* what a handler puts on the exchange: the message, and the worker's answer
\* to it when it is a request
Emit(t, out) ==
    /\ sent' = sent (+) Classes(out)
    /\ \E answers \in Answers(SelectRequested(out)) : bus' = bus (+) SeqToBag(answers)

\* score and iterations the handler passes to advanceOrComplete
Terminating(m) ==
    IF m.key = DiffComplete THEN [score |-> m.score, iterations |-> m.iter]
    ELSE [score |-> 0, iterations |-> 0]

\* the handler up to its call of advanceOrComplete: onDiffComplete records
\* the iteration and the best score of the unit and, for a passed diff,
\* publishes notify.requested; onSandboxFailed only logs
handlerEnter(t) ==
    /\ tasks[t].at = "handler"
    /\ LET p == tasks[t].msg
           key == screenKey(p.job, p.si, p.pl)
           out == IF p.key = DiffComplete /\ p.passed
                  THEN <<NotifyRequestedPayload(p.job, p.si, p.pl, p.score, p.iter)>>
                  ELSE <<>>
       IN  /\ jobs' = IF p.key = DiffComplete
                      THEN [jobs EXCEPT ![p.job].ScreenStates[key] =
                              [@ EXCEPT !.Iteration = p.iter,
                                        !.BestScore = IF p.score > @ THEN p.score ELSE @]]
                      ELSE jobs
           /\ Emit(t, out)
           /\ tasks' = [tasks EXCEPT ![t].at = "advance", ![t].out = @ \o out]
    /\ UNCHANGED <<unused, redelivered, http, store, alive, ctx, chans, taken, bc, send>>

\* advanceOrComplete from o.mu.Lock() to o.mu.Unlock(): the unit is marked
\* done, the counters advance, and completed, total and screens are copied
advanceLocked(t) ==
    /\ tasks[t].at = "advance"
    /\ LET p == tasks[t].msg
           a == Terminating(p)
       IN  IF p.job \notin DOMAIN jobs
           THEN /\ tasks' = [tasks EXCEPT ![t].at = "select"]
                /\ UNCHANGED jobs
           ELSE LET J1 == counted(jobs, p.job, p.si, p.pl, a.score, a.iterations)
                IN  /\ jobs' = J1
                    /\ tasks' = [tasks EXCEPT ![t].at = "screen.done",
                                              ![t].completed = J1[p.job].Completed,
                                              ![t].total = J1[p.job].TotalWork,
                                              ![t].screens = J1[p.job].Screens]
    /\ UNCHANGED <<bus, sent, unused, redelivered, http, store, alive, ctx, chans, taken, bc, send>>

\* advanceOrComplete: publish screen.done
advancePublish(t) ==
    /\ tasks[t].at = "screen.done"
    /\ LET p == tasks[t].msg
           a == Terminating(p)
           out == IF p.si < tasks[t].screens
                  THEN <<ScreenDonePayload(p.job, p.si, p.pl, a.score, a.iterations)>>
                  ELSE <<>>
       IN  /\ Emit(t, out)
           /\ tasks' = [tasks EXCEPT ![t].at = "next", ![t].out = @ \o out]
    /\ UNCHANGED <<jobs, unused, redelivered, http, store, alive, ctx, chans, taken, bc, send>>

\* advanceOrComplete: the next screen of the platform is looked up in the
\* job state the handler holds, and requested when it is not done
advanceNext(t) ==
    /\ tasks[t].at = "next"
    /\ LET p == tasks[t].msg
           nextIdx == p.si + 1
           nextKey == screenKey(p.job, nextIdx, p.pl)
           states == IF p.job \in DOMAIN jobs THEN jobs[p.job].ScreenStates
                     ELSE [k \in {} |-> screenState]
           out == <<requestCodegen(jobs, p.job, nextIdx, p.pl, Nil, 1)>>
       IN  IF /\ nextIdx < tasks[t].screens
              /\ nextKey \in DOMAIN states
              /\ ~states[nextKey].Done
           THEN /\ Emit(t, out)
                /\ tasks' = [tasks EXCEPT ![t].at = "select", ![t].out = @ \o out]
           ELSE /\ tasks' = [tasks EXCEPT ![t].at = "all done?"]
                /\ UNCHANGED <<bus, sent>>
    /\ UNCHANGED <<jobs, unused, redelivered, http, store, alive, ctx, chans, taken, bc, send>>

\* the test of advanceOrComplete made on the registry as it is now
allWorkDone_shared(t) ==
    LET j == tasks[t].msg.job
    IN  IF j \in DOMAIN jobs THEN jobs[j].Completed >= jobs[j].TotalWork
        ELSE tasks[t].completed >= tasks[t].total

\* the test of advanceOrComplete, on the values copied under the lock
allWorkDone(t) == tasks[t].completed >= tasks[t].total

\* advanceOrComplete: completed >= total calls completeJob, which takes the
\* job state out of the registry under o.mu and publishes job.done
advanceComplete(t) ==
    /\ tasks[t].at = "all done?"
    /\ LET j == tasks[t].msg.job
           c == completeJob(jobs, j)
       IN  IF allWorkDone(t)
           THEN /\ jobs' = c.jobs
                /\ Emit(t, c.out)
                /\ tasks' = [tasks EXCEPT ![t].at = "select", ![t].out = @ \o c.out,
                                ![t].js = IF j \in DOMAIN jobs THEN {jobs[j]} ELSE Nil]
           ELSE /\ tasks' = [tasks EXCEPT ![t].at = "select"]
                /\ UNCHANGED <<jobs, bus, sent>>
    /\ UNCHANGED <<unused, redelivered, http, store, alive, ctx, chans, taken, bc, send>>

NextRace ==
    \/ \E t \in RaceTasks : handlerEnter(t)
    \/ \E t \in RaceTasks : advanceLocked(t)
    \/ \E t \in RaceTasks : advancePublish(t)
    \/ \E t \in RaceTasks : advanceNext(t)
    \/ \E t \in RaceTasks : advanceComplete(t)

SpecRace == InitRace /\ [][NextRace]_vars

\* the handlers that are past the locked section of advanceOrComplete
PastLock == {t \in DOMAIN tasks : tasks[t].at \in {"screen.done", "next", "all done?", "select"}}

\* the job states of j1 there are: the one in the registry, or the one a
\* completeJob took out of it
JobStates ==
    {jobs[j] : j \in DOMAIN jobs} \cup UNION {tasks[t].js : t \in DOMAIN tasks}

RECURSIVE SumOver(_, _)
\* sum of field f over the unit states in set S
SumOver(S, f) ==
    IF S = {} THEN 0
    ELSE LET x == CHOOSE y \in S : TRUE
         IN  (IF f = "score" THEN x[2].BestScore ELSE x[2].Iteration) + SumOver(S \ {x}, f)

\* the units of job state js that are done, each with its state
DoneUnits(js) ==
    {<<k, js.ScreenStates[k]>> : k \in {u \in DOMAIN js.ScreenStates : js.ScreenStates[u].Done}}

\* C22: with the terminal events of two distinct units of one job handled
\* side by side, no increment is lost - completed counts the units that are
\* done, which are the earlier ones and those of the handlers past the
\* locked section, and total_score and total_iter are the sums of their
\* scores and iterations - and completeJob runs once, in the handler whose
\* own increment made completed reach total_work: job.done is published at
\* most once, by a handler that copied completed = total_work, and it is
\* published when both handlers are through and one of them copied
\* completed = total_work
C22_ConcurrentTerminalEvents ==
    /\ \A js \in JobStates :
          /\ js.Completed = Cardinality(DoneUnits(js))
          /\ js.TotalScore = SumOver(DoneUnits(js), "score")
          /\ js.TotalIter = SumOver(DoneUnits(js), "iterations")
          /\ Cardinality(DoneUnits(js))
                >= Cardinality({t \in PastLock : tasks[t].total > 0})
    /\ \A t \in DOMAIN tasks :
          Count(tasks[t].out, JobDone) > 0 =>
              /\ tasks[t].completed = tasks[t].total
              /\ Count(tasks[t].out, JobDone) = 1
              /\ \A t2 \in DOMAIN tasks \ {t} : Count(tasks[t2].out, JobDone) = 0
    /\ (\A t \in DOMAIN tasks : tasks[t].at = "select") =>
          \A t \in DOMAIN tasks :
              tasks[t].completed = tasks[t].total /\ tasks[t].total > 0
                  => Count(tasks[t].out, JobDone) = 1

\* both handlers were past the locked section before either had tested
\* completed >= total, and job.done has been published
C22_Witness ==
    /\ DOMAIN tasks = RaceTasks
    /\ \E t \in RaceTasks :
          /\ Count(tasks[t].out, JobDone) = 1
          /\ tasks[t].js # Nil
          /\ \E js \in tasks[t].js : js.TotalScore > 0
          /\ \E t2 \in RaceTasks \ {t} : tasks[t2].at \in {"screen.done", "next", "all done?"}

(* ---------------------------- live feed hub ---------------------------- *)

\* capacity of Hub.bc (512 in NewHub) and of a client's send queue (64 in
\* ServeWS); the runs here use small capacities
BcCap == 2

SendCap == 2

\* live-feed clients, and the bodies relayed to them
Clients == {"ws1", "ws2"}

LogBodies == {"a", "b"}

\* select { case ch <- b: default: } on a channel of capacity cap; this one
\* sends whatever the length
trySend_unbounded(ch, cap, b) == Append(ch, b)

\* select { case ch <- b: default: } on a channel of capacity cap
trySend(ch, cap, b) == IF Len(ch) < cap THEN Append(ch, b) ELSE ch

\* Hub.BroadcastRaw, called by emitLog and by onLogRelay through Broadcast
BroadcastRaw(b) ==
    /\ bc' = trySend(bc, BcCap, b)
    /\ UNCHANGED <<jobs, bus, sent, unused, redelivered, http, store, alive, ctx, tasks, chans, taken, send>>

\* Hub.ServeWS: the client is registered under h.mu with an empty queue and
\* its write pump is started; the read loop that follows touches no state
ServeWS(c) ==
    /\ tasks[c].at = "none"
    /\ tasks["hub"].at # "range"
    /\ send' = [x \in DOMAIN send \cup {c} |-> IF x = c THEN <<>> ELSE send[x]]
    /\ tasks' = [tasks EXCEPT ![c].at = "range"]
    /\ UNCHANGED <<jobs, bus, sent, unused, redelivered, http, store, alive, ctx, chans, taken, bc>>

\* Hub.Run, case <-ctx.Done(): return nil
hubDone ==
    /\ tasks["hub"].at = "select"
    /\ ctx = "done"
    /\ tasks' = [tasks EXCEPT !["hub"].at = "exited"]
    /\ UNCHANGED <<jobs, bus, sent, unused, redelivered, http, store, alive, ctx, chans, taken, bc, send>>

\* Hub.Run, case msg := <-h.bc: the read lock is taken and the clients are
\* ranged over
hubReceive ==
    /\ tasks["hub"].at = "select"
    /\ bc # <<>>
    /\ bc' = Tail(bc)
    /\ tasks' = [tasks EXCEPT !["hub"] =
                    [at |-> IF DOMAIN send = {} THEN "select" ELSE "range",
                     msg |-> Head(bc), rest |-> DOMAIN send]]
    /\ UNCHANGED <<jobs, bus, sent, unused, redelivered, http, store, alive, ctx, chans, taken, send>>

\* Hub.Run: the try-send to one client of the range; after the last one the
\* read lock is released
hubSend(c) ==
    /\ tasks["hub"].at = "range"
    /\ c \in tasks["hub"].rest
    /\ send' = [send EXCEPT ![c] = trySend(@, SendCap, tasks["hub"].msg)]
    /\ tasks' = [tasks EXCEPT !["hub"].rest = @ \ {c},
                              !["hub"].at = IF tasks["hub"].rest = {c}
                                            THEN "select" ELSE "range"]
    /\ UNCHANGED <<jobs, bus, sent, unused, redelivered, http, store, alive, ctx, chans, taken, bc>>

\* the write pump of ServeWS: the next message of c.send is written to the
\* connection; a failed write ends the pump
pumpWrite(c, ok) ==
    /\ tasks[c].at = "range"
    /\ send[c] # <<>>
    /\ send' = [send EXCEPT ![c] = Tail(@)]
    /\ tasks' = [tasks EXCEPT ![c].at = IF ok THEN "range" ELSE "closing"]
    /\ UNCHANGED <<jobs, bus, sent, unused, redelivered, http, store, alive, ctx, chans, taken, bc>>

\* the deferred function of the write pump: the connection is closed and the
\* client is taken out of h.clients under h.mu
pumpClose(c) ==
    /\ tasks[c].at = "closing"
    /\ tasks["hub"].at # "range"
    /\ send' = [x \in DOMAIN send \ {c} |-> send[x]]
    /\ tasks' = [tasks EXCEPT ![c].at = "exited"]
    /\ UNCHANGED <<jobs, bus, sent, unused, redelivered, http, store, alive, ctx, chans, taken, bc>>

InitHub ==
    /\ jobs = [j \in {} |-> jobState(<<>>, 0)]
    /\ bus = EmptyBag
    /\ sent = EmptyBag
    /\ unused = JobIds
    /\ redelivered = 0
    /\ http = NoExchange
    /\ store = ""
    /\ alive = TRUE
    /\ ctx = "live"
    /\ tasks = [t \in {"hub"} \cup Clients |->
                  IF t = "hub" THEN [at |-> "select", msg |-> "", rest |-> {}]
                  ELSE [at |-> "none"]]
    /\ chans = <<>>
    /\ taken = <<>>
    /\ bc = <<>>
    /\ send = <<>>

NextHub ==
    \/ cancel
    \/ \E b \in LogBodies : BroadcastRaw(b)
    \/ \E c \in Clients : ServeWS(c)
    \/ hubDone
    \/ hubReceive
    \/ \E c \in Clients : hubSend(c)
    \/ \E c \in Clients, ok \in BOOLEAN : pumpWrite(c, ok)
    \/ \E c \in Clients : pumpClose(c)

SpecHub == InitHub /\ [][NextHub]_vars

\* the hub's try-send to client c has just been made
Tried(c) ==
    /\ "hub" \in DOMAIN tasks
    /\ tasks["hub"].at = "range"
    /\ c \in tasks["hub"].rest
    /\ c \notin tasks'["hub"].rest

\* C23: the relay is lossy and blocks no producer: BroadcastRaw can always be
\* taken, and leaves the broadcast channel as it is when that is full; the
\* broadcast loop's try-send to a client leaves the client's queue as it is
\* when it is full and appends the message to it otherwise, whatever the
\* queues of the other clients; no queue holds more than its capacity
C23_LossyRelay ==
    /\ [](Len(bc) <= BcCap /\ \A c \in DOMAIN send : Len(send[c]) <= SendCap)
    /\ [](\A b \in LogBodies : ENABLED BroadcastRaw(b))
    /\ [][(bc' # bc /\ Len(bc') > Len(bc)) => Len(bc) < BcCap]_vars
    /\ [][\A c \in DOMAIN send :
             Tried(c) =>
                 send'[c] = IF Len(send[c]) = SendCap THEN send[c]
                            ELSE Append(send[c], tasks["hub"].msg)]_vars

\* the broadcast loop has gone through both clients with body b: the queue
\* of one was full of other bodies and has not got it, the other's has
C23_Witness ==
    /\ "hub" \in DOMAIN tasks
    /\ tasks["hub"].msg = "b"
    /\ tasks["hub"].rest = {}
    /\ \E c1, c2 \in DOMAIN send :
          /\ send[c1] = [i \in 1..SendCap |-> "a"]
          /\ send[c2] # <<>>
          /\ send[c2][Len(send[c2])] = "b"

(* ------------------------------ shutdown ------------------------------- *)

\* SpecShutdown runs the tasks of Run together - a delivery loop, the hub's
\* broadcast loop, the HTTP server - with the write pump of a live-feed
\* client, under the scheduling the runtime gives them: a task that can take
\* a step takes one, and a select whose ctx.Done() case is ready again and
\* again takes it in the end.

ShutdownSubs == {DiffFailed}

ShutdownClients == {"ws1"}

\* serveAPI: the context is cancelled, srv.Shutdown makes ListenAndServe
\* return http.ErrServerClosed and serveAPI returns nil
apiShutdown ==
    /\ tasks["api"].at = "serving"
    /\ ctx = "done"
    /\ tasks' = [tasks EXCEPT !["api"] = [at |-> "exited", err |-> FALSE]]
    /\ UNCHANGED <<jobs, bus, sent, unused, redelivered, http, store, alive, ctx, chans, taken, bc, send>>

\* serveAPI: ListenAndServe fails, serveAPI returns the error and the
\* errgroup cancels the context
apiFail ==
    /\ tasks["api"].at = "serving"
    /\ ctx = "live"
    /\ tasks' = [tasks EXCEPT !["api"] = [at |-> "exited", err |-> TRUE]]
    /\ ctx' = "done"
    /\ UNCHANGED <<jobs, bus, sent, unused, redelivered, http, store, alive, chans, taken, bc, send>>

InitShutdown ==
    /\ jobs = [j \in {} |-> jobState(<<>>, 0)]
    /\ bus = EmptyBag
    /\ sent = EmptyBag
    /\ unused = JobIds
    /\ redelivered = 0
    /\ http = NoExchange
    /\ store = ""
    /\ alive = TRUE
    /\ ctx = "live"
    /\ tasks = [t \in ShutdownSubs \cup {"hub", "api"} \cup ShutdownClients |->
                  IF t \in ShutdownSubs THEN [at |-> "select", err |-> FALSE]
                  ELSE IF t = "hub" THEN [at |-> "select", msg |-> "", rest |-> {}]
                  ELSE IF t = "api" THEN [at |-> "serving", err |-> FALSE]
                  ELSE [at |-> "none"]]
    /\ chans = [q \in ShutdownSubs |-> [buf |-> <<>>, closed |-> FALSE]]
    /\ taken = [q \in ShutdownSubs |-> <<>>]
    /\ bc = <<>>
    /\ send = <<>>

\* the steps of the delivery loop of subscription q
consumeStep(q) ==
    \/ consumeDone(q)
    \/ consumeClosed(q)
    \/ consumeReceive(q)
    \/ consumeHandle(q)

\* the steps of the hub's broadcast loop
hubStep ==
    \/ hubDone
    \/ hubReceive
    \/ \E c \in ShutdownClients : hubSend(c)

\* the steps of the write pump of client c
pumpStep(c) ==
    \/ \E ok \in BOOLEAN : pumpWrite(c, ok)
    \/ pumpClose(c)

NextShutdown ==
    \/ cancel
    \/ \E q \in ShutdownSubs : \E m \in LoopBodies(q) : Deliver(q, m)
    \/ \E q \in ShutdownSubs : CloseDeliveries(q)
    \/ \E q \in ShutdownSubs : consumeStep(q)
    \/ BroadcastRaw("a")
    \/ \E c \in ShutdownClients : ServeWS(c)
    \/ hubStep
    \/ \E c \in ShutdownClients : pumpStep(c)
    \/ apiShutdown
    \/ apiFail

SpecShutdown ==
    /\ InitShutdown
    /\ [][NextShutdown]_vars
    /\ \A q \in ShutdownSubs : WF_vars(consumeStep(q)) /\ SF_vars(consumeDone(q))
    /\ WF_vars(hubStep)
    /\ SF_vars(hubDone)
    /\ \A c \in ShutdownClients : WF_vars(pumpStep(c))
    /\ WF_vars(apiShutdown)

\* the tasks that have been started and have not returned
Running == {t \in DOMAIN tasks : tasks[t].at \notin {"none", "exited"}}

\* C24: once the context is cancelled every task that was started exits in
\* the end - delivery loops, broadcast loop, HTTP server, write pumps - and a
\* delivery loop that has exited has answered every delivery it took
C24_AllTasksExitAfterCancel ==
    /\ (ctx = "done") ~> (Running = {})
    /\ [](\A q \in ShutdownSubs \cap DOMAIN tasks :
             tasks[q].at = "exited" =>
                 \A i \in DOMAIN taken[q] : taken[q][i].acks + taken[q][i].nacks = 1)

(* ------------------------------ envelope ------------------------------- *)

\* events.Wrap and events.Unwrap are encoding/json on both sides.  A Go
\* string is a byte string: "<ff>" stands for a byte that is no UTF-8, which
\* json.Marshal writes as U+FFFD, "<fffd>".  A float64 is a finite number or
\* NaN or an infinity, which json.Marshal refuses.

Finite(n) == [finite |-> TRUE, v |-> n]

NaN == [finite |-> FALSE, v |-> 0]

\* the string as encoding/json writes it: invalid bytes become U+FFFD
utf8(s) ==
    CASE s = "Home<ff>" -> "Home<fffd>"
      [] s = "log.<ff>" -> "log.<fffd>"
      [] OTHER -> s

\* routing keys and ScreenDonePayload values handed to Wrap
EnvelopeKeys == {ScreenDone, JobDone, "log.<ff>"}

EnvelopePayloads ==
    [job : {"j1"}, si : {0}, name : {"Home", "Home<ff>"}, pl : {"react"},
     score : {Finite(0), Finite(85), NaN}, iterations : {0, 1, 10}]

\* json.Marshal of a ScreenDonePayload: the JSON object, or an error
Marshal(p) ==
    IF ~p.score.finite THEN [err |-> TRUE, json |-> Nil]
    ELSE [err |-> FALSE,
          json |-> {[job_id |-> utf8(p.job), screen_index |-> p.si,
                     screen_name |-> utf8(p.name), platform |-> utf8(p.pl),
                     score |-> p.score.v, iterations |-> p.iterations]}]

\* json.Unmarshal of a JSON object into a ScreenDonePayload that takes the
\* score for the iterations
Unmarshal_swapped(o) ==
    [job |-> o.job_id, si |-> o.screen_index, name |-> o.screen_name,
     pl |-> o.platform, score |-> Finite(o.score), iterations |-> o.score]

\* json.Unmarshal of a JSON object into a ScreenDonePayload
Unmarshal(o) ==
    [job |-> o.job_id, si |-> o.screen_index, name |-> o.screen_name,
     pl |-> o.platform, score |-> Finite(o.score), iterations |-> o.iterations]

\* the zero ScreenDonePayload and the zero Envelope
ZeroPayload ==
    [job |-> "", si |-> 0, name |-> "", pl |-> "", score |-> Finite(0), iterations |-> 0]

ZeroEnvelope == [id |-> "", routing_key |-> "", ts |-> "", payload |-> Nil]

\* events.Wrap: the bytes of the envelope, nil with the error of Marshal
Wrap(k, p) ==
    LET m == Marshal(p)
    IN  IF m.err THEN [err |-> TRUE, raw |-> Nil]
        ELSE [err |-> FALSE,
              raw |-> {[id |-> "uuid", routing_key |-> utf8(k), ts |-> "now",
                        payload |-> m.json]}]

\* events.Unwrap[ScreenDonePayload]: nil bytes are no JSON
UnwrapBytes(raw) ==
    IF raw = Nil THEN [err |-> TRUE, payload |-> ZeroPayload]
    ELSE LET env == CHOOSE e \in raw : TRUE
         IN  [err |-> FALSE,
              payload |-> Unmarshal(CHOOSE o \in env.payload : TRUE)]

\* events.UnwrapEnvelope
UnwrapEnvelope(raw) ==
    IF raw = Nil THEN [err |-> TRUE, env |-> ZeroEnvelope]
    ELSE [err |-> FALSE, env |-> CHOOSE e \in raw : TRUE]

\* SpecEnvelope wraps a payload and unwraps the bytes, either way
InitEnvelope ==
    /\ jobs = [j \in {} |-> jobState(<<>>, 0)]
    /\ bus = EmptyBag
    /\ sent = EmptyBag
    /\ unused = JobIds
    /\ redelivered = 0
    /\ http = NoExchange
    /\ store = ""
    /\ alive = TRUE
    /\ ctx = "live"
    /\ chans = <<>>
    /\ taken = <<>>
    /\ bc = <<>>
    /\ send = <<>>
    /\ \E k \in EnvelopeKeys, p \in EnvelopePayloads :
          tasks = [t \in {"codec"} |-> [at |-> "payload", key |-> k, payload |-> p]]

wrapPayload ==
    /\ tasks["codec"].at = "payload"
    /\ tasks' = [t \in {"codec"} |->
                    [at |-> "bytes", key |-> tasks[t].key, payload |-> tasks[t].payload,
                     wrapped |-> Wrap(tasks[t].key, tasks[t].payload)]]
    /\ UNCHANGED <<jobs, bus, sent, unused, redelivered, http, store, alive, ctx, chans, taken, bc, send>>

unwrapPayload ==
    /\ tasks["codec"].at = "bytes"
    /\ tasks' = [t \in {"codec"} |->
                    [at |-> "unwrapped", key |-> tasks[t].key, payload |-> tasks[t].payload,
                     wrapped |-> tasks[t].wrapped,
                     got |-> UnwrapBytes(tasks[t].wrapped.raw)]]
    /\ UNCHANGED <<jobs, bus, sent, unused, redelivered, http, store, alive, ctx, chans, taken, bc, send>>

unwrapEnvelope ==
    /\ tasks["codec"].at = "bytes"
    /\ tasks' = [t \in {"codec"} |->
                    [at |-> "envelope", key |-> tasks[t].key, payload |-> tasks[t].payload,
                     wrapped |-> tasks[t].wrapped,
                     got |-> UnwrapEnvelope(tasks[t].wrapped.raw)]]
    /\ UNCHANGED <<jobs, bus, sent, unused, redelivered, http, store, alive, ctx, chans, taken, bc, send>>

NextEnvelope ==
    \/ wrapPayload
    \/ unwrapPayload
    \/ unwrapEnvelope

SpecEnvelope == InitEnvelope /\ [][NextEnvelope]_vars

Representable(k, p) ==
    /\ p.score.finite
    /\ \A s \in {k, p.job, p.name, p.pl} : utf8(s) = s

IngressIds == {"j1", "j2", "j3"}

IngressRequests ==
    { [body |-> "not json"],
      [platforms |-> <<"react">>, threshold |-> 60],
      [design |-> 1, platforms |-> <<>>, threshold |-> 60],
      [design |-> 1, platforms |-> <<"kmp">>, threshold |-> 0],
      [design |-> 2, platforms |-> <<"react">>, threshold |-> 60] }

InitIngress ==
    /\ jobs = [j \in {} |-> jobState(<<>>, 0)]
    /\ bus = EmptyBag
    /\ sent = EmptyBag
    /\ unused = IngressIds
    /\ redelivered = 0
    /\ http = NoExchange
    /\ store = ""
    /\ alive = TRUE
    /\ ctx = "live"
    /\ tasks = <<>>
    /\ chans = <<>>
    /\ taken = <<>>
    /\ bc = <<>>
    /\ send = <<>>

NextIngress == \E req \in IngressRequests, ok \in BOOLEAN : handleCreateJob(req, ok)

SpecIngress == InitIngress /\ [][NextIngress]_vars

\* the job.submitted messages on the exchange for job j
Submitted(j) == {m \in BagToSet(bus) : m.key = JobSubmitted /\ m.job = j}

\* the request of the last exchange was accepted: it is JSON, it names a
\* design, and the broker took the publish
Accepted == http.code # 0 /\ "design" \in DOMAIN http.req /\ http.ok

\* C26: a request without a design URL is answered 400 and puts no
\* job.submitted on the exchange; an accepted request puts exactly one
\* there, with a job id no earlier message has and a platform list that is
\* not empty - [react, kmp] when the request gave none - and is answered 201
\* with status queued; when the publish fails the answer is an error, not
\* 201, and with any answer other than 201 the exchange is left as it was
C26_Ingress ==
    /\ [](http.code # 0 /\ "design" \notin DOMAIN http.req => http.code = 400)
    /\ [](http.code # 0 /\ ~http.ok => http.code >= 400)
    /\ [](Accepted <=> http.code = 201)
    /\ [](http.code = 201 =>
            /\ http.status = "queued"
            /\ http.job_id \notin unused
            /\ Cardinality(Submitted(http.job_id)) = 1
            /\ \A m \in Submitted(http.job_id) :
                  /\ CopiesIn(m, bus) = 1
                  /\ Len(m.platforms) > 0
                  /\ m.platforms = IF Len(http.req.platforms) = 0
                                   THEN <<"react", "kmp">> ELSE http.req.platforms)
    /\ [][http'.code # 201 => bus' = bus]_vars
    /\ [][http'.code = 201 /\ http' # http =>
            /\ BagCardinality(bus') = BagCardinality(bus) + 1
            /\ Submitted(http'.job_id) \cap BagToSet(bus) = {}
            /\ \A m \in BagToSet(bus) : m.job # http'.job_id]_vars

\* a second job has been accepted, its request without a platform list
C26_Witness ==
    /\ http.code = 201
    /\ http.req.platforms = <<>>
    /\ BagCardinality(bus) = 2
    /\ Cardinality({m.job : m \in BagToSet(bus)}) = 2

(* --------------------------- threshold zero ---------------------------- *)

\* C27: in a job submitted with threshold 0 every unit passes on its first
\* iteration: every diff.complete of the job is a pass whatever its score and
\* its handler ends the unit with iterations = 1, and the only iteration any
\* unit is taken through is the first
C27_ThresholdZeroPassesAtOnce ==
    (http.code = 201 /\ http.req.threshold = 0) =>
        \A m \in Deliveries :
            /\ (m.key = DiffComplete /\ m.job = http.job_id /\ KnownUnit(m)) =>
                  /\ m.passed
                  /\ \E o \in ScreenDones(Handled(m).out) : o.iterations = 1
            /\ (m.job = http.job_id /\ "iter" \in DOMAIN m) => m.iter = 1

(* ----------------------------- persistence ----------------------------- *)

\* SpecStore runs the orchestrator with every kind of SUPABASE_URL.
InitStore ==
    /\ jobs = [j \in {} |-> jobState(<<>>, 0)]
    /\ bus = EmptyBag
    /\ sent = EmptyBag
    /\ unused = JobIds
    /\ redelivered = 0
    /\ http = NoExchange
    /\ store \in StoreURLs
    /\ alive = TRUE
    /\ ctx = "live"
    /\ tasks = <<>>
    /\ chans = <<>>
    /\ taken = <<>>
    /\ bc = <<>>
    /\ send = <<>>

SpecStore == InitStore /\ [][Next]_vars

\* C28: persistence is best-effort: whatever becomes of the store writes of
\* a handler - skipped, taken by the store, failed - the handler publishes
\* the same events, leaves the same registry and answers its delivery the
\* same way as when every write succeeds
C28_StoreOutcomeIgnored ==
    \A m \in Deliveries : \A w \in write(store) :
        handled(jobs, m, w) = handled(jobs, m, "written")

(* ------------------------------ termination ---------------------------- *)

\* SpecLive runs the orchestrator on a bus that hands every event to its
\* subscription exactly once and on which no publish fails, with workers that
\* answer every request; every subscription's consume loop keeps running.

\* a platform list that is no set, for a design of two screens
RepeatedRequests ==
    { [design |-> 2, platforms |-> <<"react", "react">>, threshold |-> 60] }

\* request bodies the API accepts for a design with at least one screen
LiveRequests ==
    { r \in Requests \cup PlatformRequests \cup RepeatedRequests : r.design >= 1 }

\* the consume loop of routing key k takes a delivery, runs its handler and
\* its answer reaches the broker
deliverOnce(k) == \E m \in BagToSet(bus) : consume(k, m, FALSE)

NextLive ==
    \/ \E req \in LiveRequests : handleCreateJob(req, TRUE)
    \/ \E k \in Subscribed : deliverOnce(k)

SpecLive ==
    /\ Init
    /\ [][NextLive]_vars
    /\ \A k \in Subscribed : WF_vars(deliverOnce(k))

\* job j is in the registry with the units of its screens and platforms
Split(j) == j \in DOMAIN jobs /\ DOMAIN jobs[j].ScreenStates # {}

\* job j has published job.done and left the registry
Finished(j) == j \notin DOMAIN jobs /\ PublishedForJob(JobDone, j) >= 1

\* C29: the self-healing loop terminates: under exactly-once delivery, with
\* every request answered and no publish failing, a job with at least one
\* screen and one platform eventually publishes job.done and leaves the
\* registry, all its units done
C29_LoopTerminates ==
    \A j \in JobIds : Split(j) ~> Finished(j)

(* ------------------------- score at the ceiling ------------------------ *)

\* delivery m is a diff.complete that ends its unit at the iteration ceiling
\* without having passed
AtCeiling(m) ==
    /\ m.key = DiffComplete
    /\ ~Unwrap(m).err
    /\ KnownUnit(m)
    /\ ~m.passed
    /\ maxIterReached(m.iter)

\* the greater of two scores
Max(a, b) == IF a > b THEN a ELSE b

\* the units whose state both the present and the next registry hold
Kept ==
    { u \in [job : DOMAIN jobs,
             key : UNION {DOMAIN jobs[j].ScreenStates : j \in DOMAIN jobs}] :
        /\ u.key \in DOMAIN jobs[u.job].ScreenStates
        /\ u.job \in DOMAIN jobs'
        /\ u.key \in DOMAIN jobs'[u.job].ScreenStates }

\* C30: a unit that ends at the iteration ceiling without passing publishes
\* in screen.done, and adds to total_score, the score of that last
\* diff.complete, whatever the unit scored before; best_score is after every
\* diff.complete the greater of what it was and the score observed, and it
\* never decreases
C30_CeilingScoreAndBestScore ==
    /\ [](\A m \in Deliveries : AtCeiling(m) =>
            /\ ScreenDonePayload(m.job, m.si, m.pl, m.score, m.iter)
                   \in Range(Handled(m).out)
            /\ Count(Handled(m).out, ScreenDone) = 1
            /\ Counted(m)[m.job].TotalScore = jobs[m.job].TotalScore + m.score)
    /\ [](\A m \in Deliveries :
            /\ m.key = DiffComplete
            /\ ~Unwrap(m).err
            /\ KnownUnit(m)
            /\ m.job \in DOMAIN Handled(m).jobs
            => Handled(m).jobs[m.job].ScreenStates[screenKey(m.job, m.si, m.pl)].BestScore
                   = Max(UnitOf(m).BestScore, m.score))
    /\ [][\A u \in Kept :
            jobs'[u.job].ScreenStates[u.key].BestScore
                >= jobs[u.job].ScreenStates[u.key].BestScore]_vars

(* --------------------------- highest iteration ------------------------- *)

\* request bodies for a design of two screens whose diffs never reach the
\* threshold: every unit is refined up to the iteration ceiling while the
\* job's other unit keeps the job in the registry.  SpecRefine runs the
\* orchestrator with these.
RefineRequests == { [design |-> 2, platforms |-> <<"react">>, threshold |-> 0] }

NextRefine ==
    \/ \E req \in RefineRequests, ok \in BOOLEAN : handleCreateJob(req, ok)
    \/ JobSubmittedDelivery
    \/ FigmaParsedDelivery
    \/ FigmaFailedDelivery
    \/ CodegenCompleteDelivery
    \/ CodegenFailedDelivery
    \/ SandboxReadyDelivery
    \/ SandboxFailedDelivery
    \/ DiffCompleteDelivery
    \/ DiffFailedDelivery

SpecRefine == Init /\ [][NextRefine]_vars

\* C31: iteration of a unit is the highest iteration number of the
\* diff.complete events handled for it: handling a diff.complete leaves it
\* the greater of what it was and the event's iteration, so it never
\* decreases when an event with a lower iteration comes after a higher one
C31_IterationIsHighestObserved ==
    \A m \in Deliveries :
        /\ m.key = DiffComplete
        /\ ~Unwrap(m).err
        /\ KnownUnit(m)
        /\ m.job \in DOMAIN Handled(m).jobs
        => Handled(m).jobs[m.job].ScreenStates[screenKey(m.job, m.si, m.pl)].Iteration
               = Max(UnitOf(m).Iteration, m.iter)

(* ------------------------- forwarding handlers ------------------------- *)

\* C32: the forwarding handlers change no state: handling codegen.complete
\* publishes exactly one sandbox.build.requested and handling sandbox.ready
\* exactly one diff.requested, with the job, screen index, platform,
\* iteration and threshold of the incoming event, and the registry is left
\* as it was
C32_ForwardingChangesNoState ==
    \A m \in Deliveries :
        /\ m.key \in {CodegenComplete, SandboxReady}
        /\ ~Unwrap(m).err
        => LET k == IF m.key = CodegenComplete THEN SandboxBuildRequested
                    ELSE DiffRequested
               fwd == SelectSeq(Handled(m).out, LAMBDA o : o.key = k)
           IN  /\ Len(fwd) = 1
               /\ Handled(m).out = fwd
               /\ fwd[1].job = m.job
               /\ fwd[1].si = m.si
               /\ fwd[1].pl = m.pl
               /\ fwd[1].iter = m.iter
               /\ fwd[1].threshold = m.threshold
               /\ Handled(m).jobs = jobs
               /\ Handled(m).res = "ack"

\* a sandbox.ready of a later iteration is to be forwarded for a unit of the
\* registry
C32_Witness ==
    \E m \in Deliveries :
        /\ m.key = SandboxReady
        /\ KnownUnit(m)
        /\ m.iter > UnitOf(m).Iteration
        /\ \E n \in Deliveries : n.key = CodegenComplete /\ KnownUnit(n)

(* ------------------------ one delivery at a time ----------------------- *)

\* the deliveries of subscription q that have no answer yet
Unanswered(q) ==
    {i \in DOMAIN taken[q] : taken[q][i].acks + taken[q][i].nacks = 0}

\* C33: per subscription deliveries are handled one at a time and in arrival
\* order: a queue has at most one delivery outstanding, in its channel or in
\* its handler, the handler runs on the delivery taken last, and a handler
\* is entered only with the delivery at the head of the channel and only
\* when every delivery taken before has been acked or nacked; handlers of
\* different subscriptions are not ordered
C33_OneAtATimePerSubscription ==
    /\ [](\A q \in DOMAIN taken :
            /\ Len(chans[q].buf) + Cardinality(Unanswered(q)) <= 1
            /\ Unanswered(q) \subseteq {Len(taken[q])}
            /\ Unanswered(q) # {} <=> tasks[q].at = "handler")
    /\ [][\A q \in DOMAIN taken :
            Len(taken'[q]) > Len(taken[q]) =>
                /\ Unanswered(q) = {}
                /\ chans[q].buf # <<>>
                /\ taken'[q] = Append(taken[q], Delivery(Head(chans[q].buf)))
                /\ tasks'[q].at = "handler"]_vars

\* the handlers of two subscriptions run at the same time, one of them on
\* the second delivery of its queue
C33_Witness ==
    /\ tasks[DiffComplete].at = "handler"
    /\ tasks[DiffFailed].at = "handler"
    /\ Len(taken[DiffFailed]) = 2

(* -------------------------------- locks -------------------------------- *)

\* SpecLocks follows the handlers statement by statement through their lock
\* operations and external calls: o.mu (the registry's RWMutex), js.mu and
\* ss.mu (the mutexes of a job state and of a unit state).  All tasks work on
\* one job and one unit, so every lock is contended.  A test on data may go
\* either way: a statement names every statement that can follow it.

\* one statement: what it does, the lock it works on (for a call: where the
\* callee returns to), and the statements that may follow
I(op, lock, next) == [op |-> op, lock |-> lock, next |-> next]

\* "return" as the statement that follows: the function returns, to the
\* statement its caller waits at or out of the handler
After(t, n) ==
    IF n # "return" THEN n
    ELSE IF tasks[t].ret # "" THEN tasks[t].ret
    ELSE "idle"

\* operations that leave the process or enqueue on the hub
External == {"publish", "store", "emitLog", "respond"}

\* advanceOrComplete publishing screen.done before it unlocks o.mu
advanceUnlock_afterPublish ==
       "ad.jsunlock" :> I("unlock", "js.mu", {"ad.publish", "ad.unlock"})
    @@ "ad.publish"  :> I("publish", "", {"ad.unlock"})
    @@ "ad.unlock"   :> I("unlock", "o.mu", {"ad.rlock", "cj.lock", "return"})

\* advanceOrComplete leaving its locked section without o.mu.Unlock()
advanceUnlock_keepsRegistryLock ==
       "ad.jsunlock" :> I("unlock", "js.mu", {"ad.publish", "ad.rlock", "cj.lock", "return"})
    @@ "ad.publish"  :> I("publish", "", {"ad.rlock", "cj.lock", "return"})

\* advanceOrComplete from js.mu.Unlock() to the publish of screen.done
advanceUnlock ==
       "ad.jsunlock" :> I("unlock", "js.mu", {"ad.unlock"})
    @@ "ad.unlock"   :> I("unlock", "o.mu", {"ad.publish", "ad.rlock", "cj.lock", "return"})
    @@ "ad.publish"  :> I("publish", "", {"ad.rlock", "cj.lock", "return"})

\* the statements of the handlers and helpers that lock, unlock, call out or
\* return, by label
LockCode ==
    \* onJobSubmitted
       "js.log"      :> I("emitLog", "", {"js.lock"})
    @@ "js.lock"     :> I("lock", "o.mu", {"js.unlock"})
    @@ "js.unlock"   :> I("unlock", "o.mu", {"js.store"})
    @@ "js.store"    :> I("store", "", {"js.publish"})
    @@ "js.publish"  :> I("publish", "", {"return"})
    \* onFigmaParsed
    @@ "fp.lock"     :> I("lock", "o.mu", {"fp.absent", "fp.unlock"})
    @@ "fp.absent"   :> I("unlock", "o.mu", {"return"})
    @@ "fp.unlock"   :> I("unlock", "o.mu", {"fp.log"})
    @@ "fp.log"      :> I("emitLog", "", {"fp.store"})
    @@ "fp.store"    :> I("store", "", {"cj.lock", "fp.loop"})
    @@ "fp.loop"     :> I("call", "fp.back", {"rc.rlock"})
    @@ "fp.back"     :> I("branch", "", {"return", "fp.loop"})
    \* onCodegenFailed, onSandboxFailed, onDiffFailed
    @@ "uf.log"      :> I("emitLog", "", {"ad.lock"})
    \* onDiffComplete
    @@ "dc.log"      :> I("emitLog", "", {"dc.lock"})
    @@ "dc.lock"     :> I("lock", "o.mu", {"dc.unlock"})
    @@ "dc.unlock"   :> I("unlock", "o.mu", {"return", "dc.jslock"})
    @@ "dc.jslock"   :> I("lock", "js.mu", {"dc.jsunlock"})
    @@ "dc.jsunlock" :> I("unlock", "js.mu", {"return", "dc.sslock"})
    @@ "dc.sslock"   :> I("lock", "ss.mu", {"dc.ssunlock"})
    @@ "dc.ssunlock" :> I("unlock", "ss.mu", {"dc.store"})
    @@ "dc.store"    :> I("store", "", {"dc.passed", "dc.ceiling", "dc.refine"})
    @@ "dc.passed"   :> I("emitLog", "", {"dc.notify"})
    @@ "dc.notify"   :> I("publish", "", {"ad.lock"})
    @@ "dc.ceiling"  :> I("emitLog", "", {"ad.lock"})
    @@ "dc.refine"   :> I("emitLog", "", {"rc.rlock"})
    \* advanceOrComplete
    @@ "ad.lock"     :> I("lock", "o.mu", {"ad.absent", "ad.sslock", "ad.jslock"})
    @@ "ad.absent"   :> I("unlock", "o.mu", {"return"})
    @@ "ad.sslock"   :> I("lock", "ss.mu", {"ad.ssunlock"})
    @@ "ad.ssunlock" :> I("unlock", "ss.mu", {"ad.jslock"})
    @@ "ad.jslock"   :> I("lock", "js.mu", {"ad.jsunlock"})
    @@ advanceUnlock
    @@ "ad.rlock"    :> I("rlock", "o.mu", {"ad.runlock"})
    @@ "ad.runlock"  :> I("runlock", "o.mu", {"rc.rlock", "cj.lock", "return"})
    \* completeJob
    @@ "cj.lock"     :> I("lock", "o.mu", {"cj.unlock"})
    @@ "cj.unlock"   :> I("unlock", "o.mu", {"cj.jslock", "cj.log"})
    @@ "cj.jslock"   :> I("lock", "js.mu", {"cj.jsunlock"})
    @@ "cj.jsunlock" :> I("unlock", "js.mu", {"cj.log"})
    @@ "cj.log"      :> I("emitLog", "", {"cj.store"})
    @@ "cj.store"    :> I("store", "", {"cj.publish"})
    @@ "cj.publish"  :> I("publish", "", {"return"})
    \* requestCodegen
    @@ "rc.rlock"    :> I("rlock", "o.mu", {"rc.runlock"})
    @@ "rc.runlock"  :> I("runlock", "o.mu", {"rc.log"})
    @@ "rc.log"      :> I("emitLog", "", {"rc.publish"})
    @@ "rc.publish"  :> I("publish", "", {"return"})
    \* handleStatus
    @@ "st.rlock"    :> I("rlock", "o.mu", {"st.runlock"})
    @@ "st.runlock"  :> I("runlock", "o.mu", {"st.respond"})
    @@ "st.respond"  :> I("respond", "", {"return"})

\* the tasks followed, each with the first statement of its handler
LockTasks ==
    JobSubmitted :> "js.log" @@ FigmaParsed :> "fp.lock"
        @@ SandboxFailed :> "uf.log" @@ DiffComplete :> "dc.log"
        @@ "status" :> "st.rlock"

\* a task between two handler invocations
Idle == [at |-> "idle", ret |-> "", holds |-> {}, waiting |-> FALSE]

\* the statement task t stands at
Stmt(t) == LockCode[tasks[t].at]

\* the tasks that hold lock l in mode "w" or "r"
Holders(l, mode) == {t \in DOMAIN tasks : <<l, mode>> \in tasks[t].holds}

\* the tasks that have called Lock on l and wait for it
Waiters(l) ==
    {t \in DOMAIN tasks :
        /\ tasks[t].at # "idle"
        /\ tasks[t].waiting
        /\ Stmt(t).op = "lock"
        /\ Stmt(t).lock = l}

\* sync.Mutex and sync.RWMutex: Lock waits for every holder; RLock waits for
\* the writer, and for a writer that is waiting
Free(op, l) ==
    IF op = "lock" THEN Holders(l, "w") \cup Holders(l, "r") = {}
    ELSE Holders(l, "w") = {} /\ Waiters(l) = {}

InitLocks ==
    /\ jobs = [j \in {} |-> jobState(<<>>, 0)]
    /\ bus = EmptyBag
    /\ sent = EmptyBag
    /\ unused = JobIds
    /\ redelivered = 0
    /\ http = NoExchange
    /\ store = ""
    /\ alive = TRUE
    /\ ctx = "live"
    /\ tasks = [t \in DOMAIN LockTasks |-> Idle]
    /\ chans = <<>>
    /\ taken = <<>>
    /\ bc = <<>>
    /\ send = <<>>

\* a delivery, or a request of GET /status, starts the handler of task t
lockStart(t) ==
    /\ tasks[t].at = "idle"
    /\ tasks' = [tasks EXCEPT ![t].at = LockTasks[t]]
    /\ UNCHANGED <<jobs, bus, sent, unused, redelivered, http, store, alive, ctx, chans, taken, bc, send>>

\* task t passes a test, makes an external call, or calls a function that
\* returns to it
lockStep(t) ==
    /\ tasks[t].at # "idle"
    /\ Stmt(t).op \in External \cup {"branch", "call"}
    /\ \E n \in Stmt(t).next :
          tasks' = [tasks EXCEPT
                       ![t].at = After(t, n),
                       ![t].ret = IF Stmt(t).op = "call" THEN Stmt(t).lock
                                  ELSE IF n = "return" THEN "" ELSE @]
    /\ UNCHANGED <<jobs, bus, sent, unused, redelivered, http, store, alive, ctx, chans, taken, bc, send>>

\* task t calls o.mu.Lock(): from now on RLock lets no further reader in
lockCall(t) ==
    /\ tasks[t].at # "idle"
    /\ Stmt(t).op = "lock"
    /\ Stmt(t).lock = "o.mu"
    /\ ~tasks[t].waiting
    /\ tasks' = [tasks EXCEPT ![t].waiting = TRUE]
    /\ UNCHANGED <<jobs, bus, sent, unused, redelivered, http, store, alive, ctx, chans, taken, bc, send>>

\* Lock or RLock returns to task t
lockAcquire(t) ==
    /\ tasks[t].at # "idle"
    /\ Stmt(t).op \in {"lock", "rlock"}
    /\ Stmt(t).op = "lock" /\ Stmt(t).lock = "o.mu" => tasks[t].waiting
    /\ Free(Stmt(t).op, Stmt(t).lock)
    /\ \E n \in Stmt(t).next :
          tasks' = [tasks EXCEPT
                       ![t].at = n,
                       ![t].waiting = FALSE,
                       ![t].holds = @ \cup {<<Stmt(t).lock,
                                              IF Stmt(t).op = "lock" THEN "w" ELSE "r">>}]
    /\ UNCHANGED <<jobs, bus, sent, unused, redelivered, http, store, alive, ctx, chans, taken, bc, send>>

\* task t calls Unlock or RUnlock
lockRelease(t) ==
    /\ tasks[t].at # "idle"
    /\ Stmt(t).op \in {"unlock", "runlock"}
    /\ \E n \in Stmt(t).next :
          tasks' = [tasks EXCEPT
                       ![t].at = After(t, n),
                       ![t].ret = IF n = "return" THEN "" ELSE @,
                       ![t].holds = @ \ {<<Stmt(t).lock,
                                            IF Stmt(t).op = "unlock" THEN "w" ELSE "r">>}]
    /\ UNCHANGED <<jobs, bus, sent, unused, redelivered, http, store, alive, ctx, chans, taken, bc, send>>

NextLocks ==
    \/ \E t \in DOMAIN LockTasks : lockStart(t)
    \/ \E t \in DOMAIN LockTasks : lockStep(t)
    \/ \E t \in DOMAIN LockTasks : lockCall(t)
    \/ \E t \in DOMAIN LockTasks : lockAcquire(t)
    \/ \E t \in DOMAIN LockTasks : lockRelease(t)

SpecLocks == InitLocks /\ [][NextLocks]_vars

\* C34: no task holds the registry's lock o.mu, for reading or writing,
\* while it publishes on the bus, writes to the store, enqueues on the hub
\* or writes an HTTP response
C34_NoExternalCallUnderRegistryLock ==
    \A t \in DOMAIN tasks :
        tasks[t].at # "idle" /\ Stmt(t).op \in External =>
            \A h \in tasks[t].holds : h[1] # "o.mu"

\* a task publishes in advanceOrComplete, past its locked section, while
\* another task holds o.mu
C34_Witness ==
    /\ DOMAIN tasks = DOMAIN LockTasks
    /\ tasks[SandboxFailed].at = "ad.publish"
    /\ Holders("o.mu", "w") # {}

\* o.mu is taken before the lock of a job state or of a unit state
Rank(l) == IF l = "o.mu" THEN 0 ELSE 1

\* the tasks that task t waits for: the holders of the lock it has asked
\* for and, for RLock, the writers waiting for that lock
WaitsFor(t) ==
    IF tasks[t].at = "idle" \/ Stmt(t).op \notin {"lock", "rlock"} THEN {}
    ELSE LET l == Stmt(t).lock
         IN  (Holders(l, "w") \cup
                 (IF Stmt(t).op = "lock" THEN Holders(l, "r") ELSE Waiters(l))) \ {t}

\* C37: the registry lock, the per-job lock and the per-unit lock are taken
\* in an order without a cycle - a task asks for a lock only while the locks
\* it holds come before it - so no set of tasks waits for one another; a
\* task unlocks only what it holds, and a handler that has returned, on
\* whatever path, holds no lock
C37_NoDeadlockAndLocksReleased ==
    /\ \A t \in DOMAIN tasks :
          /\ tasks[t].at = "idle" => tasks[t].holds = {} /\ ~tasks[t].waiting
          /\ tasks[t].at # "idle" =>
                /\ Stmt(t).op \in {"lock", "rlock"} =>
                      \A h \in tasks[t].holds : Rank(h[1]) < Rank(Stmt(t).lock)
                /\ Stmt(t).op = "unlock" => <<Stmt(t).lock, "w">> \in tasks[t].holds
                /\ Stmt(t).op = "runlock" => <<Stmt(t).lock, "r">> \in tasks[t].holds
    /\ \A S \in SUBSET DOMAIN tasks :
          S # {} => \E t \in S : WaitsFor(t) \cap S = {}

\* advanceOrComplete holds o.mu and waits for js.mu, which onDiffComplete
\* holds, while two other tasks wait for o.mu
C37_Witness ==
    /\ DOMAIN tasks = DOMAIN LockTasks
    /\ tasks[SandboxFailed].at = "ad.jslock"
    /\ tasks[DiffComplete].at = "dc.jsunlock"
    /\ tasks[FigmaParsed].at = "fp.lock" /\ tasks[FigmaParsed].waiting
    /\ tasks["status"].at = "st.rlock"

(* ----------------------- job.done and the unit map --------------------- *)

\* C35: job.done is published only when every unit of the job's unit map is
\* done: a terminal event whose handler calls completeJob leaves, at the
\* moment the locks are released, no unit with done = false - also when
\* terminal events are delivered more than once
C35_JobDoneOnlyWhenAllUnitsDone ==
    \A m \in Deliveries :
        Terminal(m) /\ Count(Handled(m).out, JobDone) > 0 =>
            \A k \in DOMAIN Counted(m)[m.job].ScreenStates :
                Counted(m)[m.job].ScreenStates[k].Done

(* --------------------- screen.done after job.done ---------------------- *)

\* C36: once job.done of a job has been published, no screen.done of that
\* job is published, also when the terminal events of its last units are
\* handled side by side by two subscription tasks
C36_NoScreenDoneAfterJobDone ==
    [][\A j \in JobIds :
          PublishedForJob(JobDone, j) >= 1 =>
              PublishedForJob(ScreenDone, j)' = PublishedForJob(ScreenDone, j)]_vars

(* --------------------------- failing publishes ------------------------- *)

\* Broker.Publish can fail.  A handler returns the error of its
\* parse request, its forward, its codegen request, its job.failed and its
\* job.done; it drops the error of notify.requested and screen.done.  In
\* every handler the registry is written before the first publish.
\* SpecPublish runs the orchestrator on a bus on which publishes fail.

\* routing keys whose publish error the handlers drop (_ = o.publish(...))
Unchecked == {NotifyRequested, ScreenDone}

\* the handler whose result is r when all its publishes succeed, with its
\* i-th publish failing: a dropped error loses that message only; a
\* returned error ends the handler there, with the registry as written
failed(r, i) ==
    IF r.out[i].key \in Unchecked
    THEN Result(r.jobs, SubSeq(r.out, 1, i - 1) \o SubSeq(r.out, i + 1, Len(r.out)), r.res)
    ELSE Result(r.jobs, SubSeq(r.out, 1, i - 1), "nack")

\* consume once the handler has come to result r with a publish failed: the
\* delivery is acked, or nacked and delivered again
settleFailed(m, r) ==
    /\ jobs' = r.jobs
    /\ sent' = sent (+) Classes(r.out)
    /\ \E answers \in Answers(SelectRequested(r.out)) :
          bus' = (IF r.res # "ack" THEN bus ELSE bus (-) SetToBag({m}))
                     (+) SeqToBag(answers)
    /\ redelivered' = redelivered + 1

\* consume with a delivery whose handler has one of its publishes fail
consumeFailing(m) ==
    /\ alive
    /\ redelivered < MaxRedeliver
    /\ \E i \in 1..Len(handler(jobs, m).out) :
          settleFailed(m, failed(handler(jobs, m), i))
    /\ UNCHANGED <<unused, http, store, alive>>
    /\ UNCHANGED runtime

NextPublish ==
    \/ \E req \in Requests : handleCreateJob(req, TRUE)
    \/ \E k \in Subscribed : deliverOnce(k)
    \/ \E m \in BagToSet(bus) : consumeFailing(m)

SpecPublish == Init /\ [][NextPublish]_vars

\* C38: a handler that returns an error, so that its delivery is nacked and
\* requeued, leaves the registry as it was before the invocation, whatever
\* made it fail - a body that does not decode, a job or unit the registry
\* does not hold, a publish that failed
C38_ErrorLeavesRegistryUnchanged ==
    \A m \in Deliveries :
        /\ Handled(m).res = "nack" => Handled(m).jobs = jobs
        /\ \A i \in 1..Len(Handled(m).out) :
              failed(Handled(m), i).res = "nack" => failed(Handled(m), i).jobs = jobs

\* C39: job.done of a completed job is not lost to a failing publish: a job
\* leaves the registry only in a step that publishes its job.done, so that
\* after a failed publish the redelivered event still finds the job
C39_RemovedOnlyWithJobDone ==
    [][\A j \in DOMAIN jobs :
          j \notin DOMAIN jobs' =>
              PublishedForJob(JobDone, j)' > PublishedForJob(JobDone, j)]_vars

(* ---------------------- one request per iteration ---------------------- *)

\* C40: for every unit and iteration number i at most one codegen.requested
\* is published.  Iteration i of a unit is requested after its iterations
\* 1..i-1, so a handler that publishes the request of iteration i finds
\* fewer than i requests published for the unit, and publishes it once -
\* also when figma.parsed, a failing diff.complete or the terminal event of
\* the screen before is delivered again
C40_OneRequestPerIteration ==
    \A m \in Deliveries :
        LET out == Handled(m).out
        IN  \A n \in DOMAIN out :
                out[n].key = CodegenRequested =>
                    /\ Published(CodegenRequested, out[n].job, out[n].si, out[n].pl)
                           < out[n].iter
                    /\ \A n2 \in DOMAIN out : out[n2] = out[n] => n2 = n

====
